---------------------------- MODULE Spec2Model ----------------------------
(***************************************************************************)
(* A model of the Emma emulator-manager extension: the EmulatorProvider    *)
(* (the reconciling status store, its refresh and re-check cycles and its  *)
(* boot requests) together with the parsers it calls.                      *)
(*                                                                         *)
(* Strings of the program are sequences of one-character strings, so that  *)
(* concatenation, trimming, splitting and substring search are computed    *)
(* as the code computes them.  Enumerations of the code (status, icon,     *)
(* platform, subtype) are TLA+ strings.                                    *)
(***************************************************************************)
EXTENDS Integers, Sequences, FiniteSets, TLC

(***************************************************************************)
(* Strings                                                                 *)
(***************************************************************************)
UpperCase == <<"A","B","C","D","E","F","G","H","I","J","K","L","M",
               "N","O","P","Q","R","S","T","U","V","W","X","Y","Z">>
LowerCase == <<"a","b","c","d","e","f","g","h","i","j","k","l","m",
               "n","o","p","q","r","s","t","u","v","w","x","y","z">>
Digits == {"0","1","2","3","4","5","6","7","8","9"}
\* the characters \s of a regular expression matches and trim() strips, as far
\* as a string of this module can hold them: space, tab, line feed, carriage
\* return, form feed, vertical tab, U+00A0, U+1680 and U+FEFF (the space
\* separators U+2000 to U+200A, U+2028, U+2029, U+202F, U+205F and U+3000
\* occur in no string here)
WhiteSpace == {" ", "\t", "\n", "\r", "\f", "", " ", " ", "﻿"}

\* String.prototype.toLowerCase on one character
LowerOf == [c \in {UpperCase[i] : i \in 1..26} |->
               LowerCase[CHOOSE i \in 1..26 : UpperCase[i] = c]]

LowerChar(c) == IF c \in DOMAIN LowerOf THEN LowerOf[c] ELSE c

\* String.prototype.toLowerCase
ToLowerCase(s) == [i \in 1..Len(s) |-> LowerChar(s[i])]

\* whether needle occurs in s starting at position p (1-based)
StartsAt(s, p, needle) ==
    /\ p >= 1
    /\ p + Len(needle) - 1 <= Len(s)
    /\ \A k \in 1..Len(needle) : s[p + k - 1] = needle[k]

\* String.prototype.includes
Includes(s, needle) == \E p \in 1..(Len(s) + 1) : StartsAt(s, p, needle)

\* String.prototype.trim
RECURSIVE TrimStart(_)
TrimStart(s) ==
    IF s # <<>> /\ Head(s) \in WhiteSpace THEN TrimStart(Tail(s)) ELSE s

RECURSIVE TrimEnd(_)
TrimEnd(s) ==
    IF s # <<>> /\ s[Len(s)] \in WhiteSpace
    THEN TrimEnd(SubSeq(s, 1, Len(s) - 1))
    ELSE s

Trim(s) == TrimEnd(TrimStart(s))

\* String.prototype.split('\n'): the pieces between newline characters
RECURSIVE SplitNL(_, _)
SplitNL(s, cur) ==
    IF s = <<>> THEN <<cur>>
    ELSE IF Head(s) = "\n" THEN <<cur>> \o SplitNL(Tail(s), <<>>)
    ELSE SplitNL(Tail(s), Append(cur, Head(s)))

SplitLines(s) == SplitNL(s, <<>>)

\* the string literals of the code that are used as data
STR_ios_ == <<"i","o","s","-">>
STR_android_ == <<"a","n","d","r","o","i","d","-">>
STR_unavailable == <<"u","n","a","v","a","i","l","a","b","l","e">>
STR_error == <<"e","r","r","o","r">>
STR_iphone == <<"i","p","h","o","n","e">>
STR_ipad == <<"i","p","a","d">>
STR_watch == <<"w","a","t","c","h">>
STR_apple_watch == <<"a","p","p","l","e"," ","w","a","t","c","h">>
STR_vision == <<"v","i","s","i","o","n">>
STR_vision_pro == <<"v","i","s","i","o","n"," ","p","r","o">>
STR_tv == <<"t","v">>
STR_appletv == <<"a","p","p","l","e","t","v">>
STR_already_booted == <<"a","l","r","e","a","d","y"," ","b","o","o","t","e","d">>


(***************************************************************************)
(* iosEmulator.ts: the pure functions                                      *)
(***************************************************************************)
\* isSimulatorBooted
isSimulatorBooted(simulator) == simulator.state = "Booted"

\* getIOSDeviceSubtype: the device-type identifier first, then the name
getIOSDeviceSubtype(simulator) ==
    LET identifier == ToLowerCase(simulator.deviceTypeIdentifier)
        name == ToLowerCase(simulator.name)
    IN  IF Includes(identifier, STR_iphone) THEN "iPhone"
        ELSE IF Includes(identifier, STR_ipad) THEN "iPad"
        ELSE IF Includes(identifier, STR_watch)
                \/ Includes(identifier, STR_apple_watch) THEN "Apple Watch"
        ELSE IF Includes(identifier, STR_vision)
                \/ Includes(identifier, STR_vision_pro) THEN "Apple Vision"
        ELSE IF Includes(identifier, STR_tv)
                \/ Includes(identifier, STR_appletv) THEN "Apple TV"
        ELSE IF Includes(name, STR_iphone) THEN "iPhone"
        ELSE IF Includes(name, STR_ipad) THEN "iPad"
        ELSE IF Includes(name, STR_watch) THEN "Apple Watch"
        ELSE IF Includes(name, STR_vision) THEN "Apple Vision"
        ELSE IF Includes(name, STR_tv) THEN "Apple TV"
        ELSE "Other"

\* the length of the longest run of characters of set cs that starts at p
RECURSIVE RunLen(_, _, _)
RunLen(s, p, cs) ==
    IF p >= 1 /\ p <= Len(s) /\ s[p] \in cs THEN 1 + RunLen(s, p + 1, cs) ELSE 0

\* \d+ matched at p: the position after the match, 0 if none
DigitsEnd(s, p) ==
    IF p = 0 \/ RunLen(s, p, Digits) = 0 THEN 0 ELSE p + RunLen(s, p, Digits)

\* \.\d+ matched at q: the position after the match, 0 if none
DotDigitsEnd(s, q) ==
    IF q = 0 \/ q > Len(s) \/ s[q] # "." THEN 0 ELSE DigitsEnd(s, q + 1)

\* (?:\.\d+)? matched at r, the end of \d+\.\d+ (0 if that did not match)
PatchEnd(s, r) ==
    IF r = 0 THEN 0
    ELSE IF DotDigitsEnd(s, r) # 0 THEN DotDigitsEnd(s, r)
    ELSE r

\* \d+\.\d+(?:\.\d+)? matched at p: the position after the match, 0 if none
VersionEnd(s, p) == PatchEnd(s, DotDigitsEnd(s, DigitsEnd(s, p)))

\* (?:iOS|watchOS|tvOS|visionOS) with the i flag
OSNames == << <<"i","o","s">>, <<"w","a","t","c","h","o","s">>,
              <<"t","v","o","s">>, <<"v","i","s","i","o","n","o","s">> >>

\* whether the lower-case name occurs at p, letter case ignored
StartsAtIgnoreCase(s, p, name) ==
    /\ p >= 1
    /\ p + Len(name) - 1 <= Len(s)
    /\ \A k \in 1..Len(name) : LowerChar(s[p + k - 1]) = name[k]

\* the position after an OS name matched at p, 0 if none matches there (the
\* names start with different letters: at most one matches)
OSNameEnd(s, p) ==
    IF StartsAtIgnoreCase(s, p, OSNames[1]) THEN p + Len(OSNames[1])
    ELSE IF StartsAtIgnoreCase(s, p, OSNames[2]) THEN p + Len(OSNames[2])
    ELSE IF StartsAtIgnoreCase(s, p, OSNames[3]) THEN p + Len(OSNames[3])
    ELSE IF StartsAtIgnoreCase(s, p, OSNames[4]) THEN p + Len(OSNames[4])
    ELSE 0

\* /(\d+\.\d+(?:\.\d+)?)/ at p: group 1, or <<>>
VersionMatchAt(s, p) ==
    IF VersionEnd(s, p) = 0 THEN <<>> ELSE SubSeq(s, p, VersionEnd(s, p) - 1)

\* \s+(\d+\.\d+(?:\.\d+)?) at a, the end of the OS name (0 if none matched)
SimpleMatchFrom(s, a) ==
    IF a = 0 \/ RunLen(s, a, WhiteSpace) = 0 THEN <<>>
    ELSE VersionMatchAt(s, a + RunLen(s, a, WhiteSpace))

\* /(?:iOS|watchOS|tvOS|visionOS)\s+(\d+\.\d+(?:\.\d+)?)/i at p: group 1, or <<>>
SimpleMatchAt(s, p) == SimpleMatchFrom(s, OSNameEnd(s, p))

\* -(\d+) at b, the position after -(\d+) (0 if that did not match): the
\* result "g1.g2" for the first group starting at a + 1, or <<>>
IdentifierMinor(s, a, b) ==
    IF b = 0 \/ b > Len(s) \/ s[b] # "-" \/ RunLen(s, b + 1, Digits) = 0 THEN <<>>
    ELSE SubSeq(s, a + 1, b - 1) \o <<".">>
         \o SubSeq(s, b + 1, b + RunLen(s, b + 1, Digits))

\* -(\d+)-(\d+) at a, the end of the OS name (0 if none matched)
IdentifierFrom(s, a) ==
    IF a = 0 \/ a > Len(s) \/ s[a] # "-" THEN <<>>
    ELSE IdentifierMinor(s, a, DigitsEnd(s, a + 1))

\* /(?:iOS|watchOS|tvOS|visionOS)-(\d+)-(\d+)/i at p: "g1.g2", or <<>>
IdentifierMatchAt(s, p) == IdentifierFrom(s, OSNameEnd(s, p))

\* the three patterns of extractIOSVersion, in the order they are tried
MatchAt(pattern, s, p) ==
    IF pattern = 1 THEN SimpleMatchAt(s, p)
    ELSE IF pattern = 2 THEN IdentifierMatchAt(s, p)
    ELSE VersionMatchAt(s, p)

\* String.prototype.match without the g flag: the leftmost match from p on
RECURSIVE FirstMatch(_, _, _)
FirstMatch(pattern, s, p) ==
    IF p > Len(s) THEN <<>>
    ELSE LET m == MatchAt(pattern, s, p)
         IN  IF m # <<>> THEN m ELSE FirstMatch(pattern, s, p + 1)

\* a faulty extractIOSVersion, against which C26 is checked: the bare number
\* is tried before the slug
extractIOSVersion_NumberFirst(runtime) ==
    LET simpleMatch == FirstMatch(1, runtime, 1)
        identifierMatch == FirstMatch(2, runtime, 1)
        versionMatch == FirstMatch(3, runtime, 1)
    IN  IF runtime = <<>> THEN <<>>
        ELSE IF simpleMatch # <<>> THEN simpleMatch
        ELSE IF versionMatch # <<>> THEN versionMatch
        ELSE identifierMatch

\* extractIOSVersion; the result undefined is the empty sequence (no pattern
\* matches an empty string, so a defined result is never empty)
extractIOSVersion(runtime) ==
    LET simpleMatch == FirstMatch(1, runtime, 1)
        identifierMatch == FirstMatch(2, runtime, 1)
        versionMatch == FirstMatch(3, runtime, 1)
    IN  IF runtime = <<>> THEN <<>>
        ELSE IF simpleMatch # <<>> THEN simpleMatch
        ELSE IF identifierMatch # <<>> THEN identifierMatch
        ELSE versionMatch

\* a faulty parseIOSSimulatorList, against which C25 is checked: the runtime
\* of a device is always the key it is listed under
parseIOSSimulatorList_KeyOnly(devices) ==
    LET RECURSIVE collect(_)
        collect(k) ==
            IF k > Len(devices) THEN <<>>
            ELSE [i \in 1..Len(devices[k][2]) |->
                      [devices[k][2][i] EXCEPT !.runtime = devices[k][1]]]
                 \o collect(k + 1)
    IN  collect(1)

\* parseIOSSimulatorList on parsed JSON: data.devices is a sequence of
\* <<runtime key, devices>> in key order; a device whose runtime is empty
\* gets the key
parseIOSSimulatorList(devices) ==
    LET withRuntime(runtime, device) ==
            [device EXCEPT !.runtime = IF device.runtime # <<>>
                                       THEN device.runtime ELSE runtime]
        RECURSIVE collect(_)
        collect(k) ==
            IF k > Len(devices) THEN <<>>
            ELSE [i \in 1..Len(devices[k][2]) |->
                      withRuntime(devices[k][1], devices[k][2][i])]
                 \o collect(k + 1)
    IN  collect(1)

STR_devices == <<"d","e","v","i","c","e","s">>

\* data.devices of the parsed JSON document data, an object given as the
\* sequence of its <<key, value>> members: the value of the member "devices";
\* without such a member it is undefined, and `for (... in undefined)` (line
\* 19) runs no iteration, as over an object without members
DevicesOf(data) ==
    LET hits == {k \in 1..Len(data) : data[k][1] = STR_devices}
    IN  IF hits = {} THEN <<>> ELSE data[CHOOSE k \in hits : TRUE][2]

(***************************************************************************)
(* androidEmulator.ts: the listing parser                                  *)
(***************************************************************************)
\* parseAndroidEmulatorList: one AVD per non-blank line, trimmed
parseAndroidEmulatorList(output) ==
    LET lines == SelectSeq(SplitLines(Trim(output)), LAMBDA line : Len(Trim(line)) > 0)
    IN  [i \in 1..Len(lines) |-> [name |-> Trim(lines[i]), status |-> "stopped"]]



(***************************************************************************)
(* androidEmulator.ts: the status resolver                                 *)
(***************************************************************************)
\* .replace(/OK/g, '')
RECURSIVE RemoveOK(_)
RemoveOK(s) ==
    IF s = <<>> THEN <<>>
    ELSE IF Len(s) >= 2 /\ s[1] = "O" /\ s[2] = "K" THEN RemoveOK(SubSeq(s, 3, Len(s)))
    ELSE <<Head(s)>> \o RemoveOK(Tail(s))

\* .replace(/\r\n/g, '\n').replace(/\n/g, ' ')
RECURSIVE NewlinesToSpaces(_)
NewlinesToSpaces(s) ==
    IF s = <<>> THEN <<>>
    ELSE IF Len(s) >= 2 /\ s[1] = "\r" /\ s[2] = "\n"
    THEN <<" ">> \o NewlinesToSpaces(SubSeq(s, 3, Len(s)))
    ELSE <<IF Head(s) = "\n" THEN " " ELSE Head(s)>> \o NewlinesToSpaces(Tail(s))

\* what a subprocess gives back through executeCommand
Result(success, stdout) == [success |-> success, stdout |-> stdout]

\* the name each method of getEmulatorAVDName reads from its result, <<>> if
\* none: `adb emu avd name` (lines 144-157), and the two getprop calls
\* (lines 165-172 and 180-187)
EmuAvdName(result) ==
    IF result.success THEN Trim(NewlinesToSpaces(RemoveOK(result.stdout))) ELSE <<>>
PropAvdName(result) ==
    IF result.success THEN Trim(result.stdout) ELSE <<>>

\* a faulty getEmulatorAVDName, against which C30 is checked: a first method
\* that gives no name is not followed by the next one
getEmulatorAVDName_FirstMethod(dev) == EmuAvdName(dev.emu)

\* getEmulatorAVDName for the attached device dev: the first method that gives
\* a name, <<>> (null) if none does
getEmulatorAVDName(dev) ==
    IF EmuAvdName(dev.emu) # <<>> THEN EmuAvdName(dev.emu)
    ELSE IF PropAvdName(dev.bootProp) # <<>> THEN PropAvdName(dev.bootProp)
    ELSE PropAvdName(dev.kernelProp)

\* the subprocesses getEmulatorAVDName starts, in order
AVDNameCalls(dev) ==
    <<"emu avd name">>
    \o (IF EmuAvdName(dev.emu) # <<>> THEN <<>>
        ELSE <<"getprop ro.boot.qemu.avd_name">>
             \o (IF PropAvdName(dev.bootProp) # <<>> THEN <<>>
                 ELSE <<"getprop ro.kernel.qemu.avd_name">>))

\* the three checks of isAndroidSystemRunning (lines 100-105, 112-117, 124-129)
ServiceListPasses(dev) == dev.service.success /\ Len(Trim(dev.service.stdout)) > 0
DumpsysPasses(dev) == dev.dumpsys.success /\ Len(Trim(dev.dumpsys.stdout)) > 0
BootCompletedPasses(dev) == dev.boot.success /\ Trim(dev.boot.stdout) = <<"1">>

\* a faulty isAndroidSystemRunning, against which C20 is checked: only the
\* service list is asked
isAndroidSystemRunning_ServiceOnly(dev) == ServiceListPasses(dev)

\* isAndroidSystemRunning
isAndroidSystemRunning(dev) ==
    ServiceListPasses(dev) \/ DumpsysPasses(dev) \/ BootCompletedPasses(dev)

\* the subprocesses isAndroidSystemRunning starts, in order
SystemRunningCalls(dev) ==
    <<"service list">>
    \o (IF ServiceListPasses(dev) THEN <<>>
        ELSE <<"dumpsys activity services">>
             \o (IF DumpsysPasses(dev) THEN <<>> ELSE <<"getprop sys.boot_completed">>))

\* the body of the loop of getAllRunningEmulators over the emulator serials
\* (lines 226-238): the map after the device dev
SetRunningEmulator(runningEmulators, dev, avdName) ==
    IF avdName = <<>> THEN runningEmulators
    ELSE [n \in DOMAIN runningEmulators \cup {avdName} |->
            IF n # avdName THEN runningEmulators[n]
            ELSE IF dev.status = "device"
            THEN (IF isAndroidSystemRunning(dev) THEN "running" ELSE "starting")
            ELSE "starting"]

\* the subprocesses that body starts for the device dev
SerialCalls(dev) ==
    AVDNameCalls(dev)
    \o (IF getEmulatorAVDName(dev) # <<>> /\ dev.status = "device"
        THEN SystemRunningCalls(dev) ELSE <<>>)

\* getAllRunningEmulators on the emulator serials that `adb devices -l` lists,
\* from the k-th on: the map of AVD name to status
RECURSIVE getAllRunningEmulators(_, _, _)
getAllRunningEmulators(devices, k, runningEmulators) ==
    IF k > Len(devices) THEN runningEmulators
    ELSE getAllRunningEmulators(devices, k + 1,
             SetRunningEmulator(runningEmulators, devices[k],
                                getEmulatorAVDName(devices[k])))

\* getAndroidEmulatorStatus after getAllRunningEmulators gave the map and
\* getAVDNameFromProcesses answered foundInProcesses (lines 263-286)
StatusOf(runningEmulators, emulatorName, foundInProcesses) ==
    IF emulatorName \in DOMAIN runningEmulators THEN runningEmulators[emulatorName]
    ELSE IF foundInProcesses
    THEN IF Cardinality(DOMAIN runningEmulators) = 1
         THEN runningEmulators[CHOOSE n \in DOMAIN runningEmulators : TRUE]
         ELSE IF Cardinality(DOMAIN runningEmulators) = 0 THEN "starting"
         ELSE "stopped"
    ELSE "stopped"

\* getAndroidEmulatorStatus
getAndroidEmulatorStatus(emulatorName, devices, foundInProcesses) ==
    StatusOf(getAllRunningEmulators(devices, 1, <<>>), emulatorName, foundInProcesses)

(***************************************************************************)
(* cli.ts: the validators                                                  *)
(***************************************************************************)
Range(f) == {f[x] : x \in DOMAIN f}

HexDigits == Digits \cup {"a","b","c","d","e","f"} \cup {"A","B","C","D","E","F"}

\* a faulty validateUDID, against which C23 is checked: the pattern is not
\* anchored at the end
validateUDID_Unanchored(udid) ==
    /\ Len(udid) >= 36
    /\ \A k \in 1..36 : IF k \in {9, 14, 19, 24} THEN udid[k] = "-"
                                                 ELSE udid[k] \in HexDigits

\* a faulty validateAVDName, against which C24 is checked: a name of 100
\* characters passes
validateAVDName_Hundred(name) ==
    /\ Len(name) >= 1
    /\ \A k \in 1..Len(name) :
           name[k] \in Range(LowerCase) \cup Range(UpperCase) \cup Digits
                           \cup {"_", "-"}
    /\ Len(name) > 0 /\ Len(name) <= 100

\* /^[0-9A-F]{8}-[0-9A-F]{4}-[0-9A-F]{4}-[0-9A-F]{4}-[0-9A-F]{12}$/i
validateUDID(udid) ==
    /\ Len(udid) = 36
    /\ \A k \in 1..36 : IF k \in {9, 14, 19, 24} THEN udid[k] = "-"
                                                 ELSE udid[k] \in HexDigits

\* /^[a-zA-Z0-9_-]+$/, and name.length > 0 && name.length < 100
validateAVDName(name) ==
    /\ Len(name) >= 1
    /\ \A k \in 1..Len(name) :
           name[k] \in Range(LowerCase) \cup Range(UpperCase) \cup Digits
                           \cup {"_", "-"}
    /\ Len(name) > 0 /\ Len(name) < 100


(***************************************************************************)
(* What the probes can answer                                              *)
(***************************************************************************)
\* two UDIDs as simctl prints them
UDID1 ==
    <<"0","A","1","B","2","C","3","D","-","0","0","0","0","-","4","0","0","0","-","8","0","0","0","-","0","0","0","0","0","0","0","0","0","0","0","a">>
UDID2 ==
    <<"0","A","1","B","2","C","3","D","-","0","0","0","0","-","4","0","0","0","-","8","0","0","0","-","0","0","0","0","0","0","0","0","0","0","0","B">>
\* a UDID that is no UUID, and an AVD name with a dot
UDID3 == <<"0","A","1","B","2","C","3","D","-","0","0","0","z">>
AVDName3 == <<"A",".","1">>
RuntimeKey1 == <<"i","O","S","-","1","7","-","0">>
RuntimeKey2 == <<"i","O","S"," ","1","6",".","4">>

\* one device object of `xcrun simctl list --json devices`
Sim(udid, state) ==
    [udid |-> udid,
     name |-> <<"P","h","o","n","e"," ", udid[Len(udid)]>>,
     state |-> state,
     deviceTypeIdentifier |-> <<"i","P","h","o","n","e","1","5">>,
     runtime |-> <<>>]

SimStates == {"Booted", "Shutdown"}

\* the parsed JSON listings: no device, one device, two devices of one
\* runtime, and one UDID reported under two runtimes
IOSListings ==
    { <<>> }
    \cup { << <<RuntimeKey1, <<Sim(UDID1, x)>> >> >> : x \in SimStates }
    \cup { << <<RuntimeKey1, <<Sim(UDID1, x), Sim(UDID2, "Shutdown")>> >> >> :
             x \in SimStates }
    \cup { << <<RuntimeKey1, <<Sim(UDID1, "Shutdown")>> >>,
              <<RuntimeKey2, <<Sim(UDID1, x)>> >> >> : x \in SimStates }

\* a listing with a device whose UDID is no UUID
OddIOSListings ==
    { << <<RuntimeKey1, <<Sim(UDID1, "Shutdown"), Sim(UDID3, x)>> >> >> :
        x \in SimStates }

\* the messages of the errors listIOSSimulators throws
IOSErrors == { <<"F","a","i","l","e","d"," ","t","o"," ","l","i","s","t">> }

\* what checkXcodeAvailable and listIOSSimulators answer in one cycle
IOSOutcomes ==
    { [kind |-> "unavailable"] }
    \cup { [kind |-> "error", message |-> m] : m \in IOSErrors }
    \cup { [kind |-> "list", devices |-> d] : d \in IOSListings }

\* the stdout of `emulator -list-avds`: nothing, one AVD, two AVDs, and one
\* AVD name on two lines
AVDOutputs ==
    { <<>>,
      <<"A","\n">>,
      <<"A","\n","B","\n">>,
      <<"A","\n"," ","A","\n">> }

\* the stdout of `emulator -list-avds` with an AVD whose name has a dot
OddAVDOutputs == { <<"A","\n">> \o AVDName3 \o <<"\n">> }

\* the messages of the errors listAndroidEmulators throws
AndroidErrors == { <<"F","a","i","l","e","d"," ","t","o"," ","l","i","s","t">> }

\* what checkAndroidAvailable and listAndroidEmulators answer in one cycle
AndroidOutcomes ==
    { [kind |-> "unavailable"] }
    \cup { [kind |-> "error", message |-> m] : m \in AndroidErrors }
    \cup { [kind |-> "list", stdout |-> o] : o \in AVDOutputs }

\* an iPod touch simulator before and after `xcrun simctl rename`: its device
\* type names no category that getIOSDeviceSubtype knows, so that the name
\* decides
RenamedSim(name) ==
    [udid |-> UDID1,
     name |-> name,
     state |-> "Shutdown",
     deviceTypeIdentifier |-> <<"i","P","o","d","-","t","o","u","c","h">>,
     runtime |-> <<>>]
RenamedIOSListings ==
    { << <<RuntimeKey1, <<RenamedSim(name)>> >> >> :
        name \in { <<"i","P","o","d"," ","a">>, <<"i","P","h","o","n","e"," ","a">> } }

\* the devices of the listings that are parsed on their own: an iPhone 15 and
\* a watch, booted or shut down, with an empty runtime field or with their own
UDID4 ==
    <<"A","A","A","A","A","A","A","A","-","B","B","B","B","-","C","C","C","C","-","D","D","D","D","-","E","E","E","E","E","E","E","E","E","E","E","E">>
RuntimeKey3 == <<"w","a","t","c","h","O","S","-","1","0","-","2">>
PhoneSim(state, runtime) ==
    [udid |-> UDID4,
     name |-> <<"i","P","h","o","n","e"," ","1","5">>,
     state |-> state,
     deviceTypeIdentifier |-> <<"i","P","h","o","n","e","1","5",",","2">>,
     runtime |-> runtime]
WatchSim(state, runtime) ==
    [udid |-> UDID1,
     name |-> <<"W","a","t","c","h">>,
     state |-> state,
     deviceTypeIdentifier |-> <<"A","p","p","l","e","-","W","a","t","c","h">>,
     runtime |-> runtime]
ParsedDevices ==
    { PhoneSim(state, runtime) : state \in SimStates, runtime \in {<<>>, RuntimeKey2} }
    \cup { WatchSim(state, runtime) : state \in SimStates, runtime \in {<<>>, RuntimeKey2} }

\* how many device objects one runtime of such a listing holds at most
MaxListed == 2

DeviceArrays(n) == UNION { [1..m -> ParsedDevices] : m \in 0..n }

\* objects that map runtime identifiers to arrays of device objects: one
\* runtime, or two runtimes of at most one device each
RuntimeMaps ==
    { << <<RuntimeKey1, a>> >> : a \in DeviceArrays(MaxListed) }
    \cup { << <<RuntimeKey1, a>>, <<RuntimeKey3, b>> >> :
             a \in DeviceArrays(1), b \in DeviceArrays(1) }

\* the parsed JSON documents: such a map as the member "devices" of the
\* top-level object (what `xcrun simctl list --json devices` prints), and such
\* a map as the top-level object itself
ParsedDocuments ==
    { << <<STR_devices, m>> >> : m \in RuntimeMaps } \cup RuntimeMaps

\* the simulators the listings hold after parsing, with getIOSDeviceSubtype
\* and extractIOSVersion tabulated over them (constants, evaluated once)
ListedSims ==
    UNION { Range(parseIOSSimulatorList(d)) :
              d \in IOSListings \cup OddIOSListings \cup RenamedIOSListings
                        \cup RuntimeMaps }
SubtypeTable == [sim \in ListedSims |-> getIOSDeviceSubtype(sim)]
VersionTable == [runtime \in {sim.runtime : sim \in ListedSims} |->
                    extractIOSVersion(runtime)]

\* what getAndroidEmulatorStatus returns
AndroidStatuses == {"running", "starting", "stopped"}

\* The machines of the model.  On "linux" isMacOS() is false, so that
\* checkXcodeAvailable always answers false, and the Android SDK holds the
\* AVDs above.  On "darwin" the simulators above are installed and the
\* Android SDK, when its probe finds it, holds no AVD.
Hosts == {"darwin", "linux"}

\* A Mac whose tools list devices with identifiers that fail the validators
\* of cli.ts, next to devices with identifiers that pass.
OddHosts == {"darwin-odd"}

\* A Mac with the iPod touch simulator that is renamed, and one AVD.
RenamedHosts == {"darwin-renamed"}

IOSAnswers(h) ==
    IF h = "darwin" THEN IOSOutcomes
    ELSE IF h \in OddHosts
    THEN { [kind |-> "unavailable"] }
         \cup { [kind |-> "list", devices |-> d] : d \in OddIOSListings }
    ELSE IF h \in RenamedHosts
    THEN { [kind |-> "list", devices |-> d] : d \in RenamedIOSListings }
    ELSE { [kind |-> "unavailable"] }

AndroidAnswers(h) ==
    IF h = "darwin"
    THEN { [kind |-> "unavailable"], [kind |-> "list", stdout |-> <<>>] }
    ELSE IF h \in OddHosts
    THEN { [kind |-> "unavailable"] }
         \cup { [kind |-> "list", stdout |-> o] : o \in OddAVDOutputs }
    ELSE IF h \in RenamedHosts
    THEN { [kind |-> "unavailable"], [kind |-> "list", stdout |-> <<"A","\n">>] }
    ELSE AndroidOutcomes

(***************************************************************************)
(* The bounds of the model                                                 *)
(***************************************************************************)
\* how many cycles and boot requests can be in flight at once
MaxProcs == 2
\* how many boot requests the user makes
MaxBoots == 1
\* how many times the user runs the refresh command
MaxRefreshes == 1

(***************************************************************************)
(* EmulatorProvider: the state                                             *)
(***************************************************************************)
VARIABLES
    host,               \* os.platform() and what is installed on the machine
    heap,               \* the EmulatorItem objects: object reference -> fields
    iosEmulators,       \* this.iosEmulators: subtype groups or one placeholder
    androidEmulators,   \* this.androidEmulators: object references
    statusPollInterval, \* whether the setInterval timer is set
    procs,              \* the asynchronous calls in flight, each at an await
    timers,             \* the setTimeout re-checks that have not fired yet
    boots,              \* how many boot requests were made
    refreshes,          \* how many times the refresh command was run
    last,               \* the operation of the last step and what it emitted
    prev                \* what the last undisturbed refresh observed

vars == <<host, heap, iosEmulators, androidEmulators, statusPollInterval, procs,
          timers, boots, refreshes, last, prev>>

Slots == 1..MaxProcs
Idle == [kind |-> "idle"]
None == [kind |-> "none"]

\* the events a step emits, in program order
Fire == <<"fire", "">>                      \* this._onDidChangeTreeData.fire()
ShowError == <<"showErrorMessage", "">>     \* vscode.window.showErrorMessage
Spawn(cmd) == <<"spawn", cmd>>              \* a subprocess is started
SetTimeout(ms) == <<"setTimeout", ms>>      \* a re-check is scheduled in ms ("2000")

Count(events, e) == Cardinality({k \in 1..Len(events) : events[k] = e})

\* an EmulatorItem (types.ts); an absent string is <<>>, an absent subtype "none"
Item(id, label, platform, status, udid, name, icon, subtype, iosVersion) ==
    [id |-> id, label |-> label, platform |-> platform, status |-> status,
     udid |-> udid, name |-> name, icon |-> icon, subtype |-> subtype,
     iosVersion |-> iosVersion]

\* Object references are <<id, n>>: the n-th object created with that id
\* among the ones still reachable.  NoRef is the absent reference.
NoRef == <<>>

\* a top-level entry of this.iosEmulators: a subtype group with its children,
\* or a placeholder item
SubtypeEntry(subtype, children) ==
    [isSubtype |-> TRUE, subtype |-> subtype, children |-> children, item |-> NoRef]
PlaceholderEntry(o) ==
    [isSubtype |-> FALSE, subtype |-> "none", children |-> <<>>, item |-> o]

\* a new object reference for an item with the given id
NewRef(h, id) ==
    LET n == CHOOSE n \in 1..(Cardinality(DOMAIN h) + 1) :
                 /\ <<id, n>> \notin DOMAIN h
                 /\ \A q \in 1..(n - 1) : <<id, q>> \in DOMAIN h
    IN  <<id, n>>

\* the children of the subtype groups, in order
RECURSIVE ChildrenOf(_)
ChildrenOf(entries) ==
    IF entries = <<>> THEN <<>>
    ELSE (IF Head(entries).isSubtype THEN Head(entries).children ELSE <<>>)
         \o ChildrenOf(Tail(entries))

\* the items of the iOS collection: the children and the placeholders
IOSItemsOf(entries) ==
    Range(ChildrenOf(entries))
    \cup {entries[k].item : k \in {j \in 1..Len(entries) : ~entries[j].isSubtype}}

\* the objects a call in flight holds
ProcRefs(p) ==
    IF p.kind = "refresh"
    THEN Range(p.existingIOS) \cup Range(p.existingAndroid)
         \cup IOSItemsOf(p.iosItems) \cup Range(p.androidItems)
    ELSE IF p.kind = "recheck" THEN {p.existing} \ {NoRef}
    ELSE IF p.kind = "boot" THEN {p.item, p.marked} \ {NoRef}
    ELSE {}

\* the objects reachable from the provider and the calls in flight
Refs(ios, android, ps) ==
    IOSItemsOf(ios) \cup Range(android) \cup UNION {ProcRefs(ps[s]) : s \in Slots}

\* garbage collection: the heap restricted to the reachable objects
Collect(h, ios, android, ps) ==
    [o \in (DOMAIN h \cap Refs(ios, android, ps)) |-> h[o]]

\* new Map(); for (item of items) map.set(item.id, item): the last item wins
MapById(h, items) ==
    [id \in {h[items[k]].id : k \in 1..Len(items)} |->
        items[CHOOSE k \in 1..Len(items) :
                  /\ h[items[k]].id = id
                  /\ \A j \in (k + 1)..Len(items) : h[items[j]].id # id]]

\* Array.prototype.findIndex by id: the first index, 0 if none (-1 in the code)
FindIndexById(h, items, id) ==
    LET hits == {k \in 1..Len(items) : h[items[k]].id = id}
    IN  IF hits = {} THEN 0 ELSE CHOOSE k \in hits : \A j \in hits : k <= j

\* findIOSEmulator: the first child of a subtype group with the id, or null
findIOSEmulator(h, entries, id) ==
    LET children == ChildrenOf(entries)
        k == FindIndexById(h, children, id)
    IN  IF k = 0 THEN NoRef ELSE children[k]

IconOf_TwoWay(status) ==
    IF status = "running" THEN "$(circle-filled)" ELSE "$(circle-outline)"

\* the icon of a status (lines 250-255 and 610-615)
IconOf(status) ==
    IF status = "running" THEN "$(circle-filled)"
    ELSE IF status = "starting" THEN "$(sync~spin)"
    ELSE "$(circle-outline)"


(***************************************************************************)
(* loadEmulators (refresh)                                                 *)
(***************************************************************************)
SubtypeOrder == <<"iPhone", "iPad", "Apple Watch", "Apple Vision", "Apple TV", "Other">>

\* lines 157-171: the existing item o is updated in place where it differs
\* from new, the item as the listing describes it; acc = [heap, subtypeMap,
\* hasChanges]
UpdateIOSItem(acc, o, new) ==
    LET statusDiffers == acc.heap[o].status # new.status
                         \/ acc.heap[o].icon # new.icon
        versionDiffers == acc.heap[o].iosVersion # new.iosVersion
    IN  [heap |-> [acc.heap EXCEPT
                     ![o].status = IF statusDiffers THEN new.status ELSE @,
                     ![o].icon = IF statusDiffers THEN new.icon ELSE @,
                     ![o].iosVersion = IF versionDiffers THEN new.iosVersion ELSE @],
         subtypeMap |-> [acc.subtypeMap EXCEPT ![new.subtype] = Append(@, o)],
         hasChanges |-> acc.hasChanges \/ statusDiffers \/ versionDiffers]

\* lines 172-184: a new item o is created
CreateIOSItem(acc, o, new) ==
    [heap |-> acc.heap @@ (o :> new),
     subtypeMap |-> [acc.subtypeMap EXCEPT ![new.subtype] = Append(@, o)],
     hasChanges |-> TRUE]

\* lines 155-191: existingIOS.get(id), the update or the creation, and the
\* push to the list of the subtype
LoadIOSItem(existingIOS, acc, new) ==
    IF new.id \in DOMAIN existingIOS
    THEN UpdateIOSItem(acc, existingIOS[new.id], new)
    ELSE CreateIOSItem(acc, NewRef(acc.heap, new.id), new)

\* the body of the loop over the listed simulators (lines 145-191)
LoadIOSSim(sim, existingIOS, acc) ==
    LoadIOSItem(existingIOS, acc,
                Item(STR_ios_ \o sim.udid, sim.name, "ios",
                     IF isSimulatorBooted(sim) THEN "running" ELSE "stopped",
                     sim.udid, <<>>,
                     IF isSimulatorBooted(sim) THEN "$(circle-filled)"
                                               ELSE "$(circle-outline)",
                     SubtypeTable[sim],             \* getIOSDeviceSubtype(sim)
                     VersionTable[sim.runtime]))    \* extractIOSVersion(sim.runtime)

RECURSIVE LoadIOSSims(_, _, _, _)
LoadIOSSims(sims, k, existingIOS, acc) ==
    IF k > Len(sims) THEN acc
    ELSE LoadIOSSims(sims, k + 1, existingIOS, LoadIOSSim(sims[k], existingIOS, acc))

\* the subtype category items, in subtypeOrder, of the non-empty lists
RECURSIVE SubtypeItems(_, _)
SubtypeItems(subtypeMap, k) ==
    IF k > Len(SubtypeOrder) THEN <<>>
    ELSE (IF Len(subtypeMap[SubtypeOrder[k]]) > 0
          THEN <<SubtypeEntry(SubtypeOrder[k], subtypeMap[SubtypeOrder[k]])>>
          ELSE <<>>)
         \o SubtypeItems(subtypeMap, k + 1)

\* lines 194-218: the subtype category items of the filled subtypeMap
LoadIOSGroups(acc) ==
    [heap |-> acc.heap,
     iosItems |-> SubtypeItems(acc.subtypeMap, 1),
     hasChanges |-> acc.hasChanges]

\* a faulty LoadIOSPlaceholder, against which C13 is checked: the failure
\* leaves the iOS collection empty
LoadIOSPlaceholder_Empty(h, item) ==
    [heap |-> h, iosItems |-> <<>>, hasChanges |-> TRUE]

\* lines 219-241: the placeholder item of a failed listing or of missing Xcode
LoadIOSPlaceholder(h, item) ==
    [heap |-> h @@ (NewRef(h, item.id) :> item),
     iosItems |-> <<PlaceholderEntry(NewRef(h, item.id))>>,
     hasChanges |-> TRUE]

\* the iOS half of loadEmulators for one answer of the probes:
\* [heap, iosItems, hasChanges]
LoadIOS(h, existingIOS, hasChanges, outcome) ==
    IF outcome.kind = "list"
    THEN LoadIOSGroups(LoadIOSSims(parseIOSSimulatorList(outcome.devices), 1,
                                   existingIOS,
                                   [heap |-> h,
                                    subtypeMap |-> [t \in Range(SubtypeOrder) |-> <<>>],
                                    hasChanges |-> hasChanges]))
    ELSE IF outcome.kind = "error"
    THEN LoadIOSPlaceholder(h, Item(STR_ios_ \o STR_error, outcome.message, "ios",
                                    "stopped", <<>>, <<>>, "$(error)", "none", <<>>))
    ELSE LoadIOSPlaceholder(h, Item(STR_ios_ \o STR_unavailable,
                                    <<"X","c","o","d","e"," ","n","o","t"," ",
                                      "a","v","a","i","l","a","b","l","e">>, "ios",
                                    "stopped", <<>>, <<>>, "$(warning)", "none", <<>>))

\* the Android placeholder of a failed listing or of missing tools:
\* [heap, androidItems, hasChanges]
LoadAndroidPlaceholder(h, outcome) ==
    LET item == IF outcome.kind = "error"
                THEN Item(STR_android_ \o STR_error, outcome.message, "android",
                          "stopped", <<>>, <<>>, "$(error)", "none", <<>>)
                ELSE Item(STR_android_ \o STR_unavailable,
                          <<"A","n","d","r","o","i","d"," ","S","t","u","d","i","o"," ",
                            "n","o","t"," ","a","v","a","i","l","a","b","l","e">>,
                          "android", "stopped", <<>>, <<>>, "$(warning)", "none", <<>>)
        o == NewRef(h, item.id)
    IN  [heap |-> h @@ (o :> item), androidItems |-> <<o>>, hasChanges |-> TRUE]

\* the body of the loop over the listed AVDs, after getAndroidEmulatorStatus
\* answered newStatus: [heap, androidItems, hasChanges]
LoadAndroidEmu(h, existingAndroid, androidItems, hasChanges, emu, newStatus) ==
    LET id == STR_android_ \o emu.name
        newIcon == IconOf(newStatus)
        exists == id \in DOMAIN existingAndroid
        o == IF exists THEN existingAndroid[id] ELSE NewRef(h, id)
        differs == exists /\ (h[o].status # newStatus \/ h[o].icon # newIcon)
    IN  [heap |-> IF exists
                  THEN [h EXCEPT ![o].status = IF differs THEN newStatus ELSE @,
                                 ![o].icon = IF differs THEN newIcon ELSE @]
                  ELSE h @@ (o :> Item(id, emu.name, "android", newStatus, <<>>,
                                       emu.name, newIcon, "none", <<>>)),
         androidItems |-> Append(androidItems, o),
         hasChanges |-> hasChanges \/ ~exists \/ differs]

Replaces_LengthOnly(p) ==
    \/ Len(iosEmulators) # Len(p.iosItems)
    \/ Len(androidEmulators) # Len(p.androidItems)

\* whether loadEmulators replaces the arrays and fires, for the finished
\* cycle p
Replaces(p) ==
    \/ p.hasChanges
    \/ Len(iosEmulators) # Len(p.iosItems)
    \/ Len(androidEmulators) # Len(p.androidItems)


\* what a refresh has observed so far, kept while it runs undisturbed
NothingSeen == [ios |-> None, android |-> None, statuses |-> <<>>]

\* a step of another call ends the undisturbed run of the refreshes in flight
Disturb(ps, s) ==
    [t \in Slots |-> IF t # s /\ ps[t].kind = "refresh"
                     THEN [ps[t] EXCEPT !.alone = FALSE, !.seen = NothingSeen]
                     ELSE ps[t]]

\* the lowest free slot
FreeSlot(s) == procs[s] = Idle /\ \A t \in 1..(s - 1) : procs[t] # Idle

\* one step of the call in slot s: the provider's fields, the calls in flight
\* and what the step emitted
Step(s, op, h, ios, android, ps, events, info) ==
    /\ iosEmulators' = ios
    /\ androidEmulators' = android
    /\ procs' = Disturb(ps, s)
    /\ heap' = Collect(h, ios, android, ps)
    /\ last' = [op |-> op, events |-> events, info |-> info]

\* refresh(): loadEmulators runs to its first await (lines 115-139)
Refresh(s) ==
    /\ FreeSlot(s)
    /\ refreshes < MaxRefreshes
    /\ refreshes' = refreshes + 1
    /\ LET alone == \A t \in Slots : procs[t] = Idle
           p == [kind |-> "refresh", pc |-> "ios",
                 existingIOS |-> MapById(heap, ChildrenOf(iosEmulators)),
                 existingAndroid |-> MapById(heap, androidEmulators),
                 hasChanges |-> FALSE, iosItems |-> <<>>, androidItems |-> <<>>,
                 list |-> <<>>,
                 seen |-> NothingSeen,
                 alone |-> alone]
       IN  /\ Step(s, "refresh", heap, iosEmulators, androidEmulators,
                   [procs EXCEPT ![s] = p], <<>>, None)
           /\ prev' = IF alone THEN prev ELSE None
    /\ UNCHANGED <<host, statusPollInterval, timers, boots>>

\* the end of loadEmulators (lines 305-315) for the finished cycle p; android
\* is the kind of answer the Android probes gave
FinishLoad(s, p, h, android) ==
    /\ Step(s, "loadEmulators", h,
            IF Replaces(p) THEN p.iosItems ELSE iosEmulators,
            IF Replaces(p) THEN p.androidItems ELSE androidEmulators,
            [procs EXCEPT ![s] = Idle],
            IF Replaces(p) THEN <<Fire>> ELSE <<>>,
            [done |-> TRUE,
             android |-> android,
             repeat |-> p.alone /\ prev # None /\ p.seen = prev])
    /\ prev' = IF p.alone THEN p.seen ELSE None

\* a step of loadEmulators that does not end the cycle
ContinueLoad(s, p, h) ==
    /\ Step(s, "loadEmulators", h, iosEmulators, androidEmulators,
            [procs EXCEPT ![s] = p], <<>>, [done |-> FALSE])
    /\ prev' = IF p.alone THEN prev ELSE None

\* loadEmulators goes on to the Android half with the result r of the iOS half
AfterLoadIOS(s, p, r, outcome) ==
    ContinueLoad(s, [p EXCEPT !.pc = "android", !.iosItems = r.iosItems,
                              !.hasChanges = r.hasChanges,
                              !.seen.ios = IF p.alone THEN outcome ELSE @],
                 r.heap)

\* checkXcodeAvailable and listIOSSimulators answered (lines 139-241)
LoadIOSStep(s, outcome) ==
    /\ procs[s].kind = "refresh" /\ procs[s].pc = "ios"
    /\ \E r \in {LoadIOS(heap, procs[s].existingIOS, procs[s].hasChanges, outcome)} :
          AfterLoadIOS(s, procs[s], r, outcome)
    /\ UNCHANGED <<host, statusPollInterval, timers, boots, refreshes>>

\* checkAndroidAvailable and listAndroidEmulators answered (lines 244-303)
LoadAndroidListStep(s, outcome) ==
    /\ procs[s].kind = "refresh" /\ procs[s].pc = "android"
    /\ LET p == [procs[s] EXCEPT !.seen.android =
                                      IF procs[s].alone THEN outcome ELSE @]
           list == parseAndroidEmulatorList(outcome.stdout)
       IN  IF outcome.kind # "list"
           THEN LET r == LoadAndroidPlaceholder(heap, outcome)
                IN  FinishLoad(s, [p EXCEPT !.androidItems = r.androidItems,
                                            !.hasChanges = r.hasChanges], r.heap,
                               outcome.kind)
           ELSE IF list = <<>> THEN FinishLoad(s, p, heap, "list")
           ELSE ContinueLoad(s, [p EXCEPT !.pc = "status", !.list = list], heap)
    /\ UNCHANGED <<host, statusPollInterval, timers, boots, refreshes>>

\* getAndroidEmulatorStatus answered for the next listed AVD (lines 250-280)
LoadAndroidStatusStep(s, newStatus) ==
    /\ procs[s].kind = "refresh" /\ procs[s].pc = "status"
    /\ \E r \in {LoadAndroidEmu(heap, procs[s].existingAndroid,
                                procs[s].androidItems, procs[s].hasChanges,
                                procs[s].list[Len(procs[s].androidItems) + 1],
                                newStatus)} :
          LET p == procs[s]
              q == [p EXCEPT !.androidItems = r.androidItems,
                             !.hasChanges = r.hasChanges,
                             !.seen.statuses =
                                 IF p.alone THEN Append(@, newStatus) ELSE @]
          IN  IF Len(q.androidItems) = Len(p.list)
              THEN FinishLoad(s, q, r.heap, "list")
              ELSE ContinueLoad(s, q, r.heap)
    /\ UNCHANGED <<host, statusPollInterval, timers, boots, refreshes>>

(***************************************************************************)
(* checkStatusChanges (re-check)                                           *)
(***************************************************************************)
\* the body of the loop over the listed simulators (lines 570-586):
\* acc = [heap, hasChanges]
CheckIOSSim(sim, acc) ==
    LET existing == findIOSEmulator(acc.heap, iosEmulators, STR_ios_ \o sim.udid)
        isRunning == isSimulatorBooted(sim)
        newStatus == IF isRunning THEN "running" ELSE "stopped"
    IN  IF existing # NoRef /\ acc.heap[existing].status # newStatus
        THEN [heap |-> [acc.heap EXCEPT
                          ![existing].status = newStatus,
                          ![existing].icon = IF isRunning THEN "$(circle-filled)"
                                                          ELSE "$(circle-outline)"],
              hasChanges |-> TRUE]
        ELSE acc

RECURSIVE CheckIOSSims(_, _, _)
CheckIOSSims(sims, k, acc) ==
    IF k > Len(sims) THEN acc
    ELSE CheckIOSSims(sims, k + 1, CheckIOSSim(sims[k], acc))

\* the loop over the listed AVDs runs from list[k] to the first AVD that
\* findIndex finds in this.androidEmulators: its position in the list, or 0
RECURSIVE NextFound(_, _, _, _)
NextFound(h, android, list, k) ==
    IF k > Len(list) THEN 0
    ELSE IF FindIndexById(h, android, STR_android_ \o list[k].name) # 0 THEN k
    ELSE NextFound(h, android, list, k + 1)

\* a timer starts checkStatusChanges, which runs to its first await
StartCheck(s, op) ==
    /\ FreeSlot(s)
    /\ Step(s, op, heap, iosEmulators, androidEmulators,
            [procs EXCEPT ![s] = [kind |-> "recheck", pc |-> "ios",
                                  hasChanges |-> FALSE, list |-> <<>>, k |-> 0,
                                  existingIndex |-> 0, existing |-> NoRef]],
            <<>>, None)
    /\ prev' = None

\* the setInterval callback of startStatusPolling (lines 97-102)
PollTick(s) ==
    /\ statusPollInterval
    /\ StartCheck(s, "pollTick")
    /\ UNCHANGED <<host, statusPollInterval, timers, boots, refreshes>>

\* a setTimeout callback scheduled by startEmulator
TimerFire(s) ==
    /\ timers > 0
    /\ timers' = timers - 1
    /\ StartCheck(s, "timer")
    /\ UNCHANGED <<host, statusPollInterval, boots, refreshes>>

\* the end of checkStatusChanges (lines 628-632)
FinishCheck(s, p, h) ==
    /\ Step(s, "checkStatusChanges", h, iosEmulators, androidEmulators,
            [procs EXCEPT ![s] = Idle],
            IF p.hasChanges THEN <<Fire>> ELSE <<>>,
            [done |-> TRUE])
    /\ prev' = None

\* the loop over the AVDs goes on from list[k]: to the next await or to the end
ContinueCheck(s, p, h, k) ==
    \E j \in {NextFound(h, androidEmulators, p.list, k)} :
        IF j = 0 THEN FinishCheck(s, p, h)
        ELSE \E existingIndex \in {FindIndexById(h, androidEmulators,
                                                 STR_android_ \o p.list[j].name)} :
             /\ Step(s, "checkStatusChanges", h, iosEmulators, androidEmulators,
                     [procs EXCEPT ![s] =
                         [p EXCEPT !.pc = "status", !.k = j,
                                   !.existingIndex = existingIndex,
                                   !.existing = androidEmulators[existingIndex]]],
                     <<>>, [done |-> FALSE])
             /\ prev' = None

\* checkXcodeAvailable and listIOSSimulators answered (lines 566-590)
CheckIOSStep(s, outcome) ==
    /\ procs[s].kind = "recheck" /\ procs[s].pc = "ios"
    /\ \E r \in {CheckIOSSims(IF outcome.kind = "list"
                                THEN parseIOSSimulatorList(outcome.devices)
                                ELSE <<>>,
                                1, [heap |-> heap,
                                    hasChanges |-> procs[s].hasChanges])} :
       LET p == procs[s]
       IN  /\ Step(s, "checkStatusChanges", r.heap, iosEmulators, androidEmulators,
                   [procs EXCEPT ![s] = [p EXCEPT !.pc = "android",
                                                  !.hasChanges = r.hasChanges]],
                   <<>>,
                   [done |-> FALSE])
           /\ prev' = None
    /\ UNCHANGED <<host, statusPollInterval, timers, boots, refreshes>>

\* checkAndroidAvailable and listAndroidEmulators answered (lines 593-600)
CheckAndroidListStep(s, outcome) ==
    /\ procs[s].kind = "recheck" /\ procs[s].pc = "android"
    /\ LET p == procs[s]
       IN  IF outcome.kind # "list" THEN FinishCheck(s, p, heap)
           ELSE \E q \in {[p EXCEPT !.list =
                                  parseAndroidEmulatorList(outcome.stdout)]} :
                    ContinueCheck(s, q, heap, 1)
    /\ UNCHANGED <<host, statusPollInterval, timers, boots, refreshes>>

\* a faulty WriteStatus, against which C15 is checked: the answer of the
\* status query is dropped
WriteStatus_Dropped(h, android, p, newStatus) ==
    [heap |-> h, hasChanges |-> p.hasChanges]

\* a faulty WriteStatus, against which C14 is checked: the label of the
\* record is rewritten with the status
WriteStatus_Relabel(h, android, p, newStatus) ==
    IF h[p.existing].status = newStatus \/ p.existingIndex > Len(android)
    THEN [heap |-> h, hasChanges |-> p.hasChanges]
    ELSE [heap |-> [h EXCEPT ![android[p.existingIndex]].status = newStatus,
                             ![android[p.existingIndex]].label = <<>>],
          hasChanges |-> TRUE]

\* the assignment of lines 608-615: this.androidEmulators[existingIndex] is
\* undefined when the array was replaced by a shorter one, and the TypeError
\* is caught by the inner try (the status is not written, hasChanges not set)
WriteStatus(h, android, p, newStatus) ==
    IF h[p.existing].status = newStatus \/ p.existingIndex > Len(android)
    THEN [heap |-> h, hasChanges |-> p.hasChanges]
    ELSE [heap |-> [h EXCEPT ![android[p.existingIndex]].status = newStatus,
                             ![android[p.existingIndex]].icon = IconOf(newStatus)],
          hasChanges |-> TRUE]

\* what getAndroidEmulatorStatus returns when none of its subprocesses can be
\* run: `adb devices -l` fails with no output, so that no emulator serial is
\* found, and the process scan fails (androidEmulator.ts lines 79-91, 203-208);
\* the function has caught every failure and does not throw
FailedQueryStatus(emulatorName) == getAndroidEmulatorStatus(emulatorName, <<>>, FALSE)

\* getAndroidEmulatorStatus answered for list[k] (lines 604-622); failed: its
\* subprocesses could not be run
CheckAndroidStatusStep(s, newStatus, failed) ==
    /\ procs[s].kind = "recheck" /\ procs[s].pc = "status"
    /\ failed => newStatus = FailedQueryStatus(procs[s].list[procs[s].k].name)
    /\ \E r \in {WriteStatus(heap, androidEmulators, procs[s], newStatus)} :
          \E q \in {[procs[s] EXCEPT !.hasChanges = r.hasChanges,
                                     !.existing = NoRef, !.existingIndex = 0]} :
             ContinueCheck(s, q, r.heap, procs[s].k + 1)
    /\ UNCHANGED <<host, statusPollInterval, timers, boots, refreshes>>

(***************************************************************************)
(* startEmulator (boot request)                                            *)
(***************************************************************************)
\* the emulator rows of the tree: the items a click hands to startEmulator
Rows == IOSItemsOf(iosEmulators) \cup Range(androidEmulators)

\* what `xcrun simctl boot <udid>` can give back through executeCommand
SimctlResults ==
    { [success |-> TRUE, stderr |-> <<>>],
      [success |-> FALSE,
       stderr |-> <<"U","n","a","b","l","e"," ","t","o"," ","b","o","o","t",":"," ">>
                  \o STR_already_booted],
      [success |-> FALSE, stderr |-> <<"A","l","r","e","a","d","y"," ","B","o","o","t","e","d">>],
      [success |-> FALSE, stderr |-> <<"I","n","v","a","l","i","d"," ","d","e","v","i","c","e">>] }

\* what checkAndroidAvailable, getAndroidEmulatorPath and
\* isAndroidEmulatorRunning answer to bootAndroidEmulator
BootProbes ==
    { [kind |-> "unavailable"], [kind |-> "nopath"] }
    \cup { [kind |-> "status", status |-> st] : st \in AndroidStatuses }

\* the record with the item's id that startEmulator finds in the collections
\* (lines 489 and 496; 540 and 547), or NoRef
FindStored(h, ios, android, item) ==
    IF h[item].platform = "ios"
    THEN findIOSEmulator(h, ios, h[item].id)
    ELSE LET index == FindIndexById(h, android, h[item].id)
         IN  IF index = 0 THEN NoRef ELSE android[index]

\* a faulty MarkStarting, against which C4 is checked: the found record is
\* shown as running before anything was booted
MarkStarting_Running(h, ios, android, item) ==
    LET found == FindStored(h, ios, android, item)
    IN  IF found = NoRef THEN [heap |-> h, events |-> <<>>, marked |-> NoRef]
        ELSE [heap |-> [h EXCEPT ![found].status = "running",
                                 ![found].icon = "$(circle-filled)"],
              events |-> <<Fire>>,
              marked |-> found]

\* lines 487-507: the found record is set to starting and the event fired
MarkStarting(h, ios, android, item) ==
    LET found == FindStored(h, ios, android, item)
    IN  IF found = NoRef THEN [heap |-> h, events |-> <<>>, marked |-> NoRef]
        ELSE [heap |-> [h EXCEPT ![found].status = "starting",
                                 ![found].icon = "$(sync~spin)"],
              events |-> <<Fire>>,
              marked |-> found]

\* a faulty ResetStatus, against which C9 is checked: the catch block only
\* shows the message
ResetStatus_Forgotten(h, ios, android, item) ==
    [heap |-> h, events |-> <<>>]

\* lines 538-554: the found record is set back to stopped and the event fired
ResetStatus(h, ios, android, item) ==
    LET found == FindStored(h, ios, android, item)
    IN  IF found = NoRef THEN [heap |-> h, events |-> <<>>]
        ELSE [heap |-> [h EXCEPT ![found].status = "stopped",
                                 ![found].icon = "$(circle-outline)"],
              events |-> <<Fire>>]

\* a faulty AfterSimctlBoot, against which C10 is checked: every failure of
\* the subprocess is thrown
AfterSimctlBoot_AlwaysThrows(result) ==
    IF ~result.success THEN "throw" ELSE "open"

\* bootIOSSimulator after `xcrun simctl boot` finished (lines 73-81)
AfterSimctlBoot(result) ==
    IF ~result.success
    THEN IF Includes(result.stderr, STR_already_booted) THEN "return" ELSE "throw"
    ELSE "open"

\* a faulty Scheduled, against which C16 is checked: one re-check after 2 s
\* for every item
Scheduled_Once(item) == <<SetTimeout("2000")>>

\* the re-checks startEmulator schedules after the boot returned (lines 510-531)
Scheduled(item) ==
    (IF ~(item.platform = "ios" /\ item.udid # <<>>)
        /\ item.platform = "android" /\ item.name # <<>>
     THEN <<SetTimeout("1000"), SetTimeout("3000"), SetTimeout("5000")>>
     ELSE <<>>)
    \o <<SetTimeout("2000")>>

\* what a step of startEmulator leaves in last: the clicked item, the record
\* marked starting, the answer the step got and where startEmulator went
BootInfo(p, answer, outcome) ==
    [item |-> p.item, marked |-> p.marked, pc |-> p.pc, answer |-> answer,
     outcome |-> outcome]

\* the catch block of startEmulator (lines 532-555)
BootFailed(s, p, h, events, answer) ==
    LET r == ResetStatus(h, iosEmulators, androidEmulators, p.item)
    IN  /\ Step(s, "startEmulator", r.heap, iosEmulators, androidEmulators,
                [procs EXCEPT ![s] = Idle],
                events \o <<ShowError>> \o r.events, BootInfo(p, answer, "failed"))
        /\ timers' = timers

\* the boot function returned: the re-checks are scheduled (lines 510-531)
BootReturned(s, p, h, events, answer) ==
    /\ Step(s, "startEmulator", h, iosEmulators, androidEmulators,
            [procs EXCEPT ![s] = Idle],
            events \o Scheduled(h[p.item]), BootInfo(p, answer, "returned"))
    /\ timers' = timers + Len(Scheduled(h[p.item]))

\* startEmulator waits for the boot function at the await pc
BootAwaits(s, p, h, pc, events, answer) ==
    /\ Step(s, "startEmulator", h, iosEmulators, androidEmulators,
            [procs EXCEPT ![s] = [p EXCEPT !.pc = pc]],
            events, BootInfo(p, answer, "awaiting"))
    /\ timers' = timers

\* a faulty BootEntry, against which C11 is checked: the boot functions do not
\* look at the identifier
BootEntry_Unchecked(item) ==
    IF item.platform = "ios" /\ item.udid # <<>> THEN "xcode"
    ELSE IF item.platform = "android" /\ item.name # <<>> THEN "probe"
    ELSE "none"

\* where the boot function called for the item stops first: at the await of
\* checkXcodeAvailable ("xcode") or of checkAndroidAvailable ("probe") when the
\* validator accepts the identifier, at the throw when it does not, and "none"
\* when no boot function is called (lines 510-513; iosEmulator.ts 63-68,
\* androidEmulator.ts 321-326)
BootEntry(item) ==
    IF item.platform = "ios" /\ item.udid # <<>>
    THEN IF validateUDID(item.udid) THEN "xcode" ELSE "throw"
    ELSE IF item.platform = "android" /\ item.name # <<>>
    THEN IF validateAVDName(item.name) THEN "probe" ELSE "throw"
    ELSE "none"

ReturnsEarly_Never(item) == FALSE

\* the early returns of startEmulator (lines 479-485); the rows are no
\* category and no subtype items
ReturnsEarly(item) == item.status = "running"

\* startEmulator(item) runs to its first await (lines 478-514;
\* bootIOSSimulator 63-69, bootAndroidEmulator 321-326)
RequestBoot(s, item) ==
    /\ FreeSlot(s)
    /\ boots' = boots + 1
    /\ item \in Rows
    /\ LET m == MarkStarting(heap, iosEmulators, androidEmulators, item)
           p == [kind |-> "boot", pc |-> "start", item |-> item, marked |-> m.marked]
       IN  IF ReturnsEarly(heap[item])
           THEN /\ Step(s, "startEmulator", heap, iosEmulators, androidEmulators,
                        procs, <<>>, BootInfo([p EXCEPT !.marked = NoRef], None, "ignored"))
                /\ timers' = timers
           ELSE IF BootEntry(heap[item]) = "throw"
           THEN BootAwaits(s, p, m.heap, "rejected", m.events, None)
           ELSE IF BootEntry(heap[item]) = "none"
           THEN BootReturned(s, p, m.heap, m.events, None)
           ELSE BootAwaits(s, p, m.heap, BootEntry(heap[item]), m.events, None)
    /\ prev' = None
    /\ UNCHANGED <<host, statusPollInterval, refreshes>>

\* the click on an emulator row
StartEmulator(s, item) ==
    /\ boots < MaxBoots
    /\ RequestBoot(s, item)

\* one more click on an emulator row, after the clicks above
StartEmulatorAgain(s, item) ==
    /\ boots = MaxBoots
    /\ RequestBoot(s, item)

\* the boot function threw at its validator (iosEmulator.ts 64-66,
\* androidEmulator.ts 322-324): startEmulator, which waited at its await of
\* line 511 or 513 for the rejected promise, goes on in its catch block
\* (lines 532-555)
BootRejectedStep(s) ==
    /\ procs[s].kind = "boot" /\ procs[s].pc = "rejected"
    /\ BootFailed(s, procs[s], heap, <<>>, None)
    /\ prev' = None
    /\ UNCHANGED <<host, statusPollInterval, boots, refreshes>>

\* bootIOSSimulator: checkXcodeAvailable answered (lines 67-71)
BootIOSAvailStep(s, isAvailable) ==
    /\ procs[s].kind = "boot" /\ procs[s].pc = "xcode"
    /\ IF isAvailable
       THEN BootAwaits(s, procs[s], heap, "simctl", <<Spawn("xcrun simctl boot")>>,
                       isAvailable)
       ELSE BootFailed(s, procs[s], heap, <<>>, isAvailable)
    /\ prev' = None
    /\ UNCHANGED <<host, statusPollInterval, boots, refreshes>>

\* bootIOSSimulator: `xcrun simctl boot` finished (lines 71-89)
BootIOSResultStep(s, result) ==
    /\ procs[s].kind = "boot" /\ procs[s].pc = "simctl"
    /\ LET next == AfterSimctlBoot(result)
       IN  IF next = "throw" THEN BootFailed(s, procs[s], heap, <<>>, result)
           ELSE IF next = "return" THEN BootReturned(s, procs[s], heap, <<>>, result)
           ELSE BootAwaits(s, procs[s], heap, "open", <<Spawn("open -a Simulator")>>,
                           result)
    /\ prev' = None
    /\ UNCHANGED <<host, statusPollInterval, boots, refreshes>>

\* bootIOSSimulator: `open -a Simulator` finished, whatever its result
\* (lines 83-89)
BootIOSOpenStep(s) ==
    /\ procs[s].kind = "boot" /\ procs[s].pc = "open"
    /\ BootReturned(s, procs[s], heap, <<>>, None)
    /\ prev' = None
    /\ UNCHANGED <<host, statusPollInterval, boots, refreshes>>

\* bootAndroidEmulator: checkAndroidAvailable, getAndroidEmulatorPath and
\* isAndroidEmulatorRunning answered (lines 326-349)
BootAndroidProbeStep(s, answer) ==
    /\ procs[s].kind = "boot" /\ procs[s].pc = "probe"
    /\ IF answer.kind # "status" THEN BootFailed(s, procs[s], heap, <<>>, answer)
       ELSE IF answer.status = "running"
       THEN BootReturned(s, procs[s], heap, <<>>, answer)
       ELSE BootAwaits(s, procs[s], heap, "spawned", <<Spawn("emulator -avd")>>,
                       answer)
    /\ prev' = None
    /\ UNCHANGED <<host, statusPollInterval, boots, refreshes>>

\* bootAndroidEmulator: the spawned process emitted 'error', or the 100 ms
\* timer resolved the promise (lines 356-363)
BootAndroidSpawnStep(s, error) ==
    /\ procs[s].kind = "boot" /\ procs[s].pc = "spawned"
    /\ IF error THEN BootFailed(s, procs[s], heap, <<>>, error)
                ELSE BootReturned(s, procs[s], heap, <<>>, error)
    /\ prev' = None
    /\ UNCHANGED <<host, statusPollInterval, boots, refreshes>>

(***************************************************************************)
(* The specification                                                       *)
(***************************************************************************)
\* the constructor: refresh() runs loadEmulators to its first await on the
\* empty collections, then startStatusPolling() sets the interval timer
Init ==
    /\ host \in Hosts
    /\ heap = <<>>
    /\ iosEmulators = <<>>
    /\ androidEmulators = <<>>
    /\ statusPollInterval = TRUE
    /\ procs = [s \in Slots |->
                  IF s = 1
                  THEN [kind |-> "refresh", pc |-> "ios",
                        existingIOS |-> <<>>, existingAndroid |-> <<>>,
                        hasChanges |-> FALSE, iosItems |-> <<>>,
                        androidItems |-> <<>>, list |-> <<>>,
                        seen |-> NothingSeen,
                        alone |-> TRUE]
                  ELSE Idle]
    /\ timers = 0
    /\ boots = 0
    /\ refreshes = 0
    /\ last = [op |-> "constructor", events |-> <<>>, info |-> None]
    /\ prev = None

Next ==
    \/ \E s \in Slots : Refresh(s)
    \/ \E s \in Slots, outcome \in IOSAnswers(host) : LoadIOSStep(s, outcome)
    \/ \E s \in Slots, outcome \in AndroidAnswers(host) : LoadAndroidListStep(s, outcome)
    \/ \E s \in Slots, newStatus \in AndroidStatuses : LoadAndroidStatusStep(s, newStatus)
    \/ \E s \in Slots : PollTick(s)
    \/ \E s \in Slots : TimerFire(s)
    \/ \E s \in Slots, outcome \in IOSAnswers(host) : CheckIOSStep(s, outcome)
    \/ \E s \in Slots, outcome \in AndroidAnswers(host) : CheckAndroidListStep(s, outcome)
    \/ \E s \in Slots, newStatus \in AndroidStatuses, failed \in BOOLEAN :
          CheckAndroidStatusStep(s, newStatus, failed)
    \/ \E s \in Slots, item \in Rows : StartEmulator(s, item)
    \/ \E s \in Slots, isAvailable \in BOOLEAN : BootIOSAvailStep(s, isAvailable)
    \/ \E s \in Slots, result \in SimctlResults : BootIOSResultStep(s, result)
    \/ \E s \in Slots : BootIOSOpenStep(s)
    \/ \E s \in Slots, answer \in BootProbes : BootAndroidProbeStep(s, answer)
    \/ \E s \in Slots, error \in BOOLEAN : BootAndroidSpawnStep(s, error)

Spec == Init /\ [][Next]_vars

\* the same program on a machine whose tools list identifiers that fail the
\* validators
InitOdd ==
    /\ host \in OddHosts
    /\ heap = <<>>
    /\ iosEmulators = <<>>
    /\ androidEmulators = <<>>
    /\ statusPollInterval = TRUE
    /\ procs = [s \in Slots |->
                  IF s = 1
                  THEN [kind |-> "refresh", pc |-> "ios",
                        existingIOS |-> <<>>, existingAndroid |-> <<>>,
                        hasChanges |-> FALSE, iosItems |-> <<>>,
                        androidItems |-> <<>>, list |-> <<>>,
                        seen |-> NothingSeen,
                        alone |-> TRUE]
                  ELSE Idle]
    /\ timers = 0
    /\ boots = 0
    /\ refreshes = 0
    /\ last = [op |-> "constructor", events |-> <<>>, info |-> None]
    /\ prev = None

\* on the machines of Hosts and RenamedHosts every listed identifier passes
\* its validator and no boot waits at "rejected"; here one does
NextOdd ==
    \/ Next
    \/ \E s \in Slots : BootRejectedStep(s)

SpecOdd == InitOdd /\ [][NextOdd]_vars

\* the same program on the machine with the simulator that is renamed
InitRenamed ==
    /\ host \in RenamedHosts
    /\ heap = <<>>
    /\ iosEmulators = <<>>
    /\ androidEmulators = <<>>
    /\ statusPollInterval = TRUE
    /\ procs = [s \in Slots |->
                  IF s = 1
                  THEN [kind |-> "refresh", pc |-> "ios",
                        existingIOS |-> <<>>, existingAndroid |-> <<>>,
                        hasChanges |-> FALSE, iosItems |-> <<>>,
                        androidItems |-> <<>>, list |-> <<>>,
                        seen |-> NothingSeen,
                        alone |-> TRUE]
                  ELSE Idle]
    /\ timers = 0
    /\ boots = 0
    /\ refreshes = 0
    /\ last = [op |-> "constructor", events |-> <<>>, info |-> None]
    /\ prev = None

SpecRenamed == InitRenamed /\ [][Next]_vars

\* a call in flight in the slot s that is a refresh or a boot request is
\* resumed with the answer of the subprocess it waits for
Resume(s) ==
    \/ \E outcome \in IOSAnswers(host) : LoadIOSStep(s, outcome)
    \/ \E outcome \in AndroidAnswers(host) : LoadAndroidListStep(s, outcome)
    \/ \E newStatus \in AndroidStatuses : LoadAndroidStatusStep(s, newStatus)
    \/ \E isAvailable \in BOOLEAN : BootIOSAvailStep(s, isAvailable)
    \/ \E result \in SimctlResults : BootIOSResultStep(s, result)
    \/ BootIOSOpenStep(s)
    \/ \E answer \in BootProbes : BootAndroidProbeStep(s, answer)
    \/ \E error \in BOOLEAN : BootAndroidSpawnStep(s, error)

\* The scheduling of the event loop.  A timer that is set fires, and the
\* interval timer of startStatusPolling goes on firing (strong fairness: in
\* the model a callback waits while MaxProcs calls are in flight).  Every
\* call in flight at an await is resumed when its subprocess has answered.
\* The probes answer again and again: a re-check that waits is resumed, and
\* of the re-checks that run some get a listing from each platform and some
\* get from the status query an answer other than Starting.
Fairness ==
    /\ SF_vars(\E s \in Slots : TimerFire(s))
    /\ SF_vars(\E s \in Slots : PollTick(s))
    /\ \A s \in Slots :
          /\ WF_vars(Resume(s))
          /\ SF_vars(\E outcome \in IOSAnswers(host) :
                        outcome.kind = "list" /\ CheckIOSStep(s, outcome))
          /\ SF_vars(\E outcome \in AndroidAnswers(host) :
                        outcome.kind = "list" /\ CheckAndroidListStep(s, outcome))
          /\ SF_vars(\E newStatus \in {"running", "stopped"} :
                        CheckAndroidStatusStep(s, newStatus, FALSE))

\* the steps of the program when the user asks for no refresh: the refresh
\* of the constructor, the timers, the re-checks and the boot requests
NextFair ==
    \/ \E s \in Slots : Resume(s)
    \/ \E s \in Slots : PollTick(s)
    \/ \E s \in Slots : TimerFire(s)
    \/ \E s \in Slots, outcome \in IOSAnswers(host) : CheckIOSStep(s, outcome)
    \/ \E s \in Slots, outcome \in AndroidAnswers(host) : CheckAndroidListStep(s, outcome)
    \/ \E s \in Slots, newStatus \in AndroidStatuses, failed \in BOOLEAN :
          CheckAndroidStatusStep(s, newStatus, failed)
    \/ \E s \in Slots, item \in Rows : StartEmulator(s, item)

\* the program on the machine with one simulator and one AVD, under that
\* scheduling
SpecFair == InitRenamed /\ [][NextFair]_vars /\ Fairness

(***************************************************************************)
(* getAndroidEmulatorStatus on its own                                     *)
(***************************************************************************)
\* the most emulator serials `adb devices -l` lists
MaxDevices == 2

\* what the three methods of getEmulatorAVDName get from one device: nothing;
\* the name A from `emu avd name`; only "OK" from it and the name B from the
\* first property; the name A from the second property only
NameAnswers ==
    { [emu |-> Result(FALSE, <<>>), bootProp |-> Result(FALSE, <<>>),
       kernelProp |-> Result(FALSE, <<>>)],
      [emu |-> Result(TRUE, <<"A","\r","\n","O","K","\r","\n">>),
       bootProp |-> Result(FALSE, <<>>), kernelProp |-> Result(FALSE, <<>>)],
      [emu |-> Result(TRUE, <<"O","K","\r","\n">>),
       bootProp |-> Result(TRUE, <<"B","\n">>), kernelProp |-> Result(FALSE, <<>>)],
      [emu |-> Result(FALSE, <<>>), bootProp |-> Result(TRUE, <<"\n">>),
       kernelProp |-> Result(TRUE, <<"A","\n">>)] }

\* what the three checks of isAndroidSystemRunning get from one device:
\* nothing; a service list; a dump only; an empty service list and
\* sys.boot_completed = 1; sys.boot_completed = 10 only
LivenessAnswers ==
    { [service |-> Result(FALSE, <<>>), dumpsys |-> Result(FALSE, <<>>),
       boot |-> Result(FALSE, <<>>)],
      [service |-> Result(TRUE, <<"s","\n">>), dumpsys |-> Result(FALSE, <<>>),
       boot |-> Result(FALSE, <<>>)],
      [service |-> Result(FALSE, <<>>), dumpsys |-> Result(TRUE, <<"d","\n">>),
       boot |-> Result(FALSE, <<>>)],
      [service |-> Result(TRUE, <<" ","\n">>), dumpsys |-> Result(FALSE, <<>>),
       boot |-> Result(TRUE, <<"1","\n">>)],
      [service |-> Result(FALSE, <<>>), dumpsys |-> Result(TRUE, <<>>),
       boot |-> Result(TRUE, <<"1","0","\n">>)] }

\* an emulator serial of `adb devices -l` with its connection state and with
\* what the subprocesses run for it answer
AttachedDevices ==
    { [status |-> st, emu |-> n.emu, bootProp |-> n.bootProp,
       kernelProp |-> n.kernelProp, service |-> l.service,
       dumpsys |-> l.dumpsys, boot |-> l.boot] :
        st \in {"device", "offline"}, n \in NameAnswers, l \in LivenessAnswers }

\* the emulator serials of one `adb devices -l`
DeviceLists == UNION { [1..n -> AttachedDevices] : n \in 0..MaxDevices }

\* the AVD names asked for
QueriedNames == { <<"A">>, <<"B">>, <<"C">> }

\* a call getAndroidEmulatorStatus(emulatorName) is made on a machine whose
\* adb lists devices and whose process scan answers foundInProcesses; the
\* provider is not involved
InitStatus ==
    /\ host \in {"linux"}
    /\ heap = <<>>
    /\ iosEmulators = <<>>
    /\ androidEmulators = <<>>
    /\ statusPollInterval = FALSE
    /\ procs = [s \in Slots |-> Idle]
    /\ timers = 0
    /\ boots = 0
    /\ refreshes = 0
    /\ \E emulatorName \in QueriedNames, devices \in DeviceLists,
          foundInProcesses \in BOOLEAN :
          last = [op |-> "call", events |-> <<>>,
                  info |-> [emulatorName |-> emulatorName, devices |-> devices,
                            foundInProcesses |-> foundInProcesses]]
    /\ prev = None

\* the call returns: last holds the map of getAllRunningEmulators, the status
\* each serial recorded in it ("none" for a serial without a name), the
\* subprocesses run for each serial, and the status returned
QueryStatus ==
    /\ last.op = "call"
    /\ LET q == last.info
       IN  last' = [op |-> "getAndroidEmulatorStatus", events |-> <<>>,
                    info |-> [emulatorName |-> q.emulatorName,
                              devices |-> q.devices,
                              foundInProcesses |-> q.foundInProcesses,
                              runningEmulators |->
                                  getAllRunningEmulators(q.devices, 1, <<>>),
                              recorded |->
                                  [k \in 1..Len(q.devices) |->
                                     LET avdName == getEmulatorAVDName(q.devices[k])
                                     IN  IF avdName = <<>> THEN "none"
                                         ELSE SetRunningEmulator(<<>>, q.devices[k],
                                                                 avdName)[avdName]],
                              calls |-> [k \in 1..Len(q.devices) |->
                                            SerialCalls(q.devices[k])],
                              status |-> getAndroidEmulatorStatus(
                                             q.emulatorName, q.devices,
                                             q.foundInProcesses)]]
    /\ UNCHANGED <<host, heap, iosEmulators, androidEmulators, statusPollInterval,
                   procs, timers, boots, refreshes, prev>>

NextStatus == QueryStatus

SpecStatus == InitStatus /\ [][NextStatus]_vars

(***************************************************************************)
(* parseIOSSimulatorList on its own                                        *)
(***************************************************************************)
\* the JSON document data is handed to parseIOSSimulatorList (after
\* JSON.parse), and its result to the loop of a first loadEmulators
InitParse ==
    /\ host \in {"darwin"}
    /\ heap = <<>>
    /\ iosEmulators = <<>>
    /\ androidEmulators = <<>>
    /\ statusPollInterval = FALSE
    /\ procs = [s \in Slots |-> Idle]
    /\ timers = 0
    /\ boots = 0
    /\ refreshes = 0
    /\ \E data \in ParsedDocuments :
          last = [op |-> "call", events |-> <<>>, info |-> [data |-> data]]
    /\ prev = None

\* the parser returns: last holds the simulators it returned and what the
\* iOS half of loadEmulators makes of them in an empty store
ParseListing ==
    /\ last.op = "call"
    /\ LET data == last.info.data
       IN  last' = [op |-> "parseIOSSimulatorList", events |-> <<>>,
                    info |-> [data |-> data,
                              simulators |-> parseIOSSimulatorList(DevicesOf(data)),
                              loaded |-> LoadIOS(<<>>, <<>>, FALSE,
                                                 [kind |-> "list",
                                                  devices |-> DevicesOf(data)])]]
    /\ UNCHANGED <<host, heap, iosEmulators, androidEmulators, statusPollInterval,
                   procs, timers, boots, refreshes, prev>>

NextParse == ParseListing

SpecParse == InitParse /\ [][NextParse]_vars

(***************************************************************************)
(* extractIOSVersion on its own                                            *)
(***************************************************************************)
\* the pieces the runtime strings are made of
RuntimeTokens ==
    { <<"i","O","S">>, <<"t","v","o","s">>, <<" ">>, <<"\f">>, <<"-","1">>,
      <<"-","2","7">>, <<"1",".","2">>, <<".","3">> }

\* how many pieces a runtime string has at most
MaxTokens == 4

RECURSIVE Concat(_)
Concat(pieces) == IF pieces = <<>> THEN <<>> ELSE Head(pieces) \o Concat(Tail(pieces))

\* the runtime strings of the examples
RuntimeSlug == <<"c","o","m",".","a","p","p","l","e",".","C","o","r","e","S","i","m","u","l","a","t","o","r",".","S","i","m","R","u","n","t","i","m","e",".","w","a","t","c","h","O","S","-","1","0","-","2">>
RuntimeGarbage == <<"g","a","r","b","a","g","e">>

\* the runtime strings handed to extractIOSVersion
RuntimeStrings ==
    { Concat(pieces) : pieces \in UNION { [1..n -> RuntimeTokens] : n \in 0..MaxTokens } }
    \cup { RuntimeSlug, RuntimeKey2, RuntimeGarbage }

InitVersion ==
    /\ host \in {"darwin"}
    /\ heap = <<>>
    /\ iosEmulators = <<>>
    /\ androidEmulators = <<>>
    /\ statusPollInterval = FALSE
    /\ procs = [s \in Slots |-> Idle]
    /\ timers = 0
    /\ boots = 0
    /\ refreshes = 0
    /\ \E runtime \in RuntimeStrings :
          last = [op |-> "call", events |-> <<>>, info |-> [runtime |-> runtime]]
    /\ prev = None

\* extractIOSVersion returns (the empty sequence is undefined)
ExtractVersion ==
    /\ last.op = "call"
    /\ last' = [op |-> "extractIOSVersion", events |-> <<>>,
                info |-> [runtime |-> last.info.runtime,
                          version |-> extractIOSVersion(last.info.runtime)]]
    /\ UNCHANGED <<host, heap, iosEmulators, androidEmulators, statusPollInterval,
                   procs, timers, boots, refreshes, prev>>

NextVersion == ExtractVersion

SpecVersion == InitVersion /\ [][NextVersion]_vars

(***************************************************************************)
(* validateUDID and validateAVDName on their own                           *)
(***************************************************************************)
\* a UUID in lower case
UDID5 ==
    <<"0","a","1","b","2","c","3","d","-","e","f","0","0","-","4","0","0","0","-","8","0","0","0","-","0","0","0","0","0","0","0","0","0","0","0","a">>

\* UUIDs in mixed, upper and lower case
UDIDBases == {UDID1, UDID4, UDID5}

\* the characters put into a UUID and around it
UDIDChars == {"0", "f", "F", "g", "-", " ", "\n"}

\* the strings handed to validateUDID: a UUID with one character replaced,
\* with one character removed, with a character before or after it, or twice
UDIDInputs ==
    { [b EXCEPT ![p] = c] : b \in UDIDBases, p \in 1..36, c \in UDIDChars }
    \cup { SubSeq(b, 1, p - 1) \o SubSeq(b, p + 1, 36) : b \in UDIDBases, p \in 1..36 }
    \cup { <<c>> \o b : b \in UDIDBases, c \in UDIDChars }
    \cup { b \o <<c>> : b \in UDIDBases, c \in UDIDChars }
    \cup { b \o b : b \in UDIDBases }
    \cup { <<>> }

\* the longest AVD name handed to validateAVDName
MaxNameLen == 101

\* the characters of the AVD names
NameChars == {"a", "Z", "5", "_", "-"}
OtherChars == {" ", "/", ".", "\n"}

\* the strings handed to validateAVDName: one character repeated, and such a
\* string with another character as its first or its last one
AVDNameInputs ==
    { [k \in 1..n |-> c] : n \in 0..MaxNameLen, c \in NameChars }
    \cup { [k \in 1..n |-> IF k = 1 THEN x ELSE "a"] :
             n \in 1..MaxNameLen, x \in OtherChars \cup NameChars }
    \cup { [k \in 1..n |-> IF k = n THEN x ELSE "Z"] :
             n \in 1..MaxNameLen, x \in OtherChars \cup NameChars }

InitValidate ==
    /\ host \in {"darwin"}
    /\ heap = <<>>
    /\ iosEmulators = <<>>
    /\ androidEmulators = <<>>
    /\ statusPollInterval = FALSE
    /\ procs = [s \in Slots |-> Idle]
    /\ timers = 0
    /\ boots = 0
    /\ refreshes = 0
    /\ \/ \E udid \in UDIDInputs :
             last = [op |-> "call", events |-> <<>>,
                     info |-> [validator |-> "validateUDID", input |-> udid]]
       \/ \E name \in AVDNameInputs :
             last = [op |-> "call", events |-> <<>>,
                     info |-> [validator |-> "validateAVDName", input |-> name]]
    /\ prev = None

\* validateUDID returns
ValidateUDID ==
    /\ last.op = "call" /\ last.info.validator = "validateUDID"
    /\ last' = [op |-> "validateUDID", events |-> <<>>,
                info |-> [input |-> last.info.input,
                          valid |-> validateUDID(last.info.input)]]
    /\ UNCHANGED <<host, heap, iosEmulators, androidEmulators, statusPollInterval,
                   procs, timers, boots, refreshes, prev>>

\* validateAVDName returns
ValidateAVDName ==
    /\ last.op = "call" /\ last.info.validator = "validateAVDName"
    /\ last' = [op |-> "validateAVDName", events |-> <<>>,
                info |-> [input |-> last.info.input,
                          valid |-> validateAVDName(last.info.input)]]
    /\ UNCHANGED <<host, heap, iosEmulators, androidEmulators, statusPollInterval,
                   procs, timers, boots, refreshes, prev>>

NextValidate ==
    \/ ValidateUDID
    \/ ValidateAVDName

SpecValidate == InitValidate /\ [][NextValidate]_vars

(***************************************************************************)
(* platform.ts: where the Android tools are                                *)
(***************************************************************************)
\* A path is the sequence of its segments (strings): path.join appends
\* segments.  A
\* machine m is [platform, ANDROID_HOME, ANDROID_SDK_ROOT, LOCALAPPDATA,
\* USERPROFILE, homedir, files, runs, which]: os.platform(), the environment
\* (<<>>: not set or empty), os.homedir(), the files that exist, whether
\* `<tool> -version` of the bare name succeeds, and whether which/where finds
\* the bare name.
NoPath == <<>>

isWindows(m) == m.platform = "win32"

existsSync(m, path) == path \in m.files

\* emulatorExe and adbExe (lines 137 and 228)
ExeOf(m, tool) ==
    IF ~isWindows(m) THEN tool
    ELSE IF tool = "emulator" THEN "emulator.exe" ELSE "adb.exe"

\* getDefaultAndroidPaths (dir = emulator) and getDefaultAdbPaths (dir =
\* platform-tools): the default paths of the tool, in the order they are tried
DefaultPaths(m, dir, tool) ==
    IF m.platform = "darwin"
    THEN << m.homedir \o <<"Library", "Android", "sdk", dir, tool>> >>
    ELSE IF m.platform = "win32"
    THEN (IF m.LOCALAPPDATA # <<>>
          THEN << m.LOCALAPPDATA \o <<"Android", "Sdk", dir, ExeOf(m, tool)>> >>
          ELSE <<>>)
         \o (IF m.USERPROFILE # <<>>
             THEN << m.USERPROFILE \o <<"AppData", "Local", "Android", "Sdk", dir,
                                        ExeOf(m, tool)>> >>
             ELSE <<>>)
    ELSE IF m.platform = "linux"
    THEN << m.homedir \o <<"Android", "Sdk", dir, tool>>,
            m.homedir \o <<"android-sdk", dir, tool>> >>
    ELSE <<>>
getDefaultAndroidPaths(m) == DefaultPaths(m, "emulator", "emulator")
getDefaultAdbPaths(m) == DefaultPaths(m, "platform-tools", "adb")

\* process.env.ANDROID_HOME || process.env.ANDROID_SDK_ROOT
AndroidHome(m) == IF m.ANDROID_HOME # <<>> THEN m.ANDROID_HOME ELSE m.ANDROID_SDK_ROOT

\* the loop over the default paths: the first that exists, or NoPath
RECURSIVE FirstExisting(_, _, _)
FirstExisting(m, paths, k) ==
    IF k > Len(paths) THEN NoPath
    ELSE IF existsSync(m, paths[k]) THEN paths[k]
    ELSE FirstExisting(m, paths, k + 1)

\* checkAndroidAvailable
checkAndroidAvailable(m) ==
    IF m.runs THEN TRUE
    ELSE IF /\ AndroidHome(m) # <<>>
            /\ existsSync(m, AndroidHome(m) \o <<"emulator", ExeOf(m, "emulator")>>)
    THEN TRUE
    ELSE FirstExisting(m, getDefaultAndroidPaths(m), 1) # NoPath

\* a faulty ToolPath, against which C27 is checked: the default paths are
\* tried before the environment
ToolPath_DefaultFirst(m, dir, exe, defaultPaths) ==
    IF FirstExisting(m, defaultPaths, 1) # NoPath
    THEN FirstExisting(m, defaultPaths, 1)
    ELSE IF AndroidHome(m) # <<>> /\ existsSync(m, AndroidHome(m) \o <<dir, exe>>)
    THEN AndroidHome(m) \o <<dir, exe>>
    ELSE IF m.which THEN <<exe>>
    ELSE NoPath

\* the body that getAndroidEmulatorPath and getAndroidAdbPath share: the
\* path under the SDK root of the environment, a default path, the bare name
ToolPath(m, dir, exe, defaultPaths) ==
    IF AndroidHome(m) # <<>> /\ existsSync(m, AndroidHome(m) \o <<dir, exe>>)
    THEN AndroidHome(m) \o <<dir, exe>>
    ELSE IF FirstExisting(m, defaultPaths, 1) # NoPath
    THEN FirstExisting(m, defaultPaths, 1)
    ELSE IF m.which THEN <<exe>>
    ELSE NoPath

getAndroidEmulatorPath(m) ==
    ToolPath(m, "emulator", ExeOf(m, "emulator"), getDefaultAndroidPaths(m))

getAndroidAdbPath(m) ==
    ToolPath(m, "platform-tools", ExeOf(m, "adb"), getDefaultAdbPaths(m))

\* the machines: two SDK roots that the environment can name, the home
\* directory, and on Windows the two variables of the default paths
SdkRoots == { <<"sdk1">>, <<"sdk2">> }
Platforms == {"darwin", "linux", "win32"}
BareMachines ==
    { [platform |-> p, ANDROID_HOME |-> h, ANDROID_SDK_ROOT |-> r,
       LOCALAPPDATA |-> l, USERPROFILE |-> u, homedir |-> <<"home">>] :
        p \in Platforms, h \in SdkRoots \cup {<<>>}, r \in SdkRoots \cup {<<>>},
        l \in {<<>>, <<"D:", "Local">>},
        u \in {<<>>, <<"C:", "Users", "u">>} }

\* the places where the tool of directory dir can be on the machine b
ToolPlaces(b, dir, tool) ==
    { root \o <<dir, ExeOf(b, tool)>> : root \in SdkRoots }
    \cup Range(DefaultPaths(b, dir, tool))

\* the machines on which fn is called, with the tool of fn at some of its
\* places
MachinesOf(dir, tool) ==
    UNION { { [platform |-> b.platform, ANDROID_HOME |-> b.ANDROID_HOME,
               ANDROID_SDK_ROOT |-> b.ANDROID_SDK_ROOT,
               LOCALAPPDATA |-> b.LOCALAPPDATA, USERPROFILE |-> b.USERPROFILE,
               homedir |-> b.homedir, files |-> f, runs |-> x[1], which |-> x[2]] :
                f \in SUBSET ToolPlaces(b, dir, tool), x \in BOOLEAN \X BOOLEAN } :
            b \in {c \in BareMachines :
                     c.platform # "win32"
                       => c.LOCALAPPDATA = <<>> /\ c.USERPROFILE = <<>>} }

InitPlatform ==
    /\ host \in {"linux"}
    /\ heap = <<>>
    /\ iosEmulators = <<>>
    /\ androidEmulators = <<>>
    /\ statusPollInterval = FALSE
    /\ procs = [s \in Slots |-> Idle]
    /\ timers = 0
    /\ boots = 0
    /\ refreshes = 0
    /\ \/ \E fn \in {"checkAndroidAvailable", "getAndroidEmulatorPath"},
             m \in MachinesOf("emulator", "emulator") :
             last = [op |-> "call", events |-> <<>>,
                     info |-> [fn |-> fn, machine |-> m]]
       \/ \E m \in MachinesOf("platform-tools", "adb") :
             last = [op |-> "call", events |-> <<>>,
                     info |-> [fn |-> "getAndroidAdbPath", machine |-> m]]
    /\ prev = None

\* the function fn returns result on the machine of the call
Answer(fn, result) ==
    /\ last.op = "call" /\ last.info.fn = fn
    /\ last' = [op |-> fn, events |-> <<>>,
                info |-> [machine |-> last.info.machine, result |-> result]]
    /\ UNCHANGED <<host, heap, iosEmulators, androidEmulators, statusPollInterval,
                   procs, timers, boots, refreshes, prev>>

CheckAndroidAvailable ==
    Answer("checkAndroidAvailable", checkAndroidAvailable(last.info.machine))

GetAndroidEmulatorPath ==
    Answer("getAndroidEmulatorPath", getAndroidEmulatorPath(last.info.machine))

GetAndroidAdbPath ==
    Answer("getAndroidAdbPath", getAndroidAdbPath(last.info.machine))

NextPlatform ==
    \/ CheckAndroidAvailable
    \/ GetAndroidEmulatorPath
    \/ GetAndroidAdbPath

SpecPlatform == InitPlatform /\ [][NextPlatform]_vars

(***************************************************************************)
(* Properties                                                              *)
(***************************************************************************)
\* the device records of the collections: the children of the iOS subtype
\* groups and the Android items that name an AVD (placeholders name none)
IOSRecords(ios) == Range(ChildrenOf(ios))
AndroidRecords(h, android) == {o \in Range(android) : h[o].name # <<>>}
Records(h, ios, android) == IOSRecords(ios) \cup AndroidRecords(h, android)

\* the ids of a set of items
Ids(h, items) == {h[o].id : o \in items}

\* the slot s holds a refresh that this step completes
Completes(s) == procs[s].kind = "refresh" /\ procs'[s] = Idle

\* this step completes a refresh
RefreshDone == last'.op = "loadEmulators" /\ last'.info.done

\* C1: when refresh runs twice in succession on identical probe data (the same
\* availability, listings and statuses, and no step of any other operation in
\* between), the second refresh fires no change event and leaves in the
\* collections the very objects the first one left.
C1_SecondRefreshIsSilent ==
    [][(RefreshDone /\ last'.info.repeat)
         => /\ Count(last'.events, Fire) = 0
            /\ iosEmulators' = iosEmulators
            /\ androidEmulators' = androidEmulators]_vars

\* the ids a completing refresh p got from a successful iOS listing
ListedIOSIds(h, p) == Ids(h, IOSRecords(p.iosItems))

\* whether the iOS listing of the refresh p succeeded (a failure leaves one
\* placeholder entry)
IOSListed(p) == \A k \in 1..Len(p.iosItems) : p.iosItems[k].isSubtype

\* C2: when a refresh completes, the collection of each platform whose listing
\* succeeded holds records for exactly the ids of that listing: a device that
\* is no longer listed is no longer in the collection.
C2_StoreEqualsListing ==
    [][\A s \in Slots :
         (Completes(s) /\ RefreshDone)
           => /\ IOSListed(procs[s])
                 => Ids(heap', IOSRecords(iosEmulators'))
                      = ListedIOSIds(heap, procs[s])
              /\ last'.info.android = "list"
                 => Ids(heap', AndroidRecords(heap', androidEmulators'))
                      = {STR_android_ \o procs[s].list[k].name :
                           k \in 1..Len(procs[s].list)}]_vars


\* the ids of the AVDs the completing refresh p got from a successful listing
ListedAndroidIds(p) == {STR_android_ \o p.list[k].name : k \in 1..Len(p.list)}

\* the ids of device records that this step takes out of a collection
RemovedIOSIds == Ids(heap, IOSRecords(iosEmulators))
                   \ Ids(heap', IOSRecords(iosEmulators'))
RemovedAndroidIds == Ids(heap, AndroidRecords(heap, androidEmulators))
                       \ Ids(heap', AndroidRecords(heap', androidEmulators'))

\* C3: the id of a device record leaves a collection only in the completing
\* step of a refresh whose listing for that platform succeeded and omits the
\* id; a refresh whose availability probe or listing failed for the platform
\* leaves the platform's records in the collection.
C3_RemovalOnlyByListing ==
    [][/\ RemovedIOSIds # {}
          => \E s \in Slots : /\ Completes(s) /\ RefreshDone
                              /\ IOSListed(procs[s])
                              /\ RemovedIOSIds \cap ListedIOSIds(heap, procs[s]) = {}
       /\ RemovedAndroidIds # {}
          => \E s \in Slots : /\ Completes(s) /\ RefreshDone
                              /\ last'.info.android = "list"
                              /\ RemovedAndroidIds \cap ListedAndroidIds(procs[s]) = {}]_vars

\* no two positions of the sequence of items hold records with the same id
UniqueIds(h, items) ==
    \A j, k \in 1..Len(items) : h[items[j]].id = h[items[k]].id => j = k

\* C5: in every state the records of the iOS collection, across the subtype
\* groups, have distinct ids, and so have the records of the Android
\* collection.
C5_IdsAreUnique ==
    /\ UniqueIds(heap, ChildrenOf(iosEmulators))
    /\ UniqueIds(heap, androidEmulators)

\* the device records in the collections whose id the completing refresh p
\* found in a successful listing
StillListed(h, ios, android, p, androidKind) ==
    {o \in IOSRecords(ios) : IOSListed(p) /\ h[o].id \in ListedIOSIds(h, p)}
    \cup {o \in AndroidRecords(h, android) :
            androidKind = "list" /\ h[o].id \in ListedAndroidIds(p)}

\* C6: a refresh that completes keeps in the collections every record object
\* whose id its successful listing still reports, whatever ran between its
\* start and its completion.
C6_ListedRecordsKeepIdentity ==
    [][\A s \in Slots :
         (Completes(s) /\ RefreshDone)
           => StillListed(heap, iosEmulators, androidEmulators, procs[s],
                          last'.info.android)
                \subseteq Records(heap', iosEmulators', androidEmulators')]_vars

\* C7: a step of a refresh or re-check cycle fires the change event at most
\* once and only when the cycle ends, and a refresh that finds the probes
\* answering as they answered the refresh before it (a platform unavailable or
\* failing in the same way included) fires nothing.
C7_FiresOnlyOnChange ==
    [][/\ last'.op \in {"loadEmulators", "checkStatusChanges"}
          => /\ Count(last'.events, Fire) <= 1
             /\ Count(last'.events, Fire) = 1 => last'.info.done
       /\ (RefreshDone /\ last'.info.repeat)
          => Count(last'.events, Fire) = 0]_vars


\* the step is the catch block of startEmulator
BootFails == last'.op = "startEmulator" /\ last'.info.outcome = "failed"

\* the edges along which the status of a record may change
ListedEdges ==
    { <<"stopped", "starting">>, <<"starting", "running">>,
      <<"starting", "stopped">>, <<"running", "stopped">> }

\* C4 as stated: the status of a stored record changes only from stopped to
\* starting (by a boot request), from starting to running or stopped (by a
\* probe or the rollback) and from running to stopped (by a probe).
C4_OnlyListedEdges ==
    [][\A o \in Rows \cap DOMAIN heap' :
         heap'[o].status # heap[o].status
           => /\ <<heap[o].status, heap'[o].status>> \in ListedEdges
              /\ heap'[o].status = "starting" => last'.op = "startEmulator"
              /\ heap[o].status = "running" => last'.op # "startEmulator"]_vars

\* the step is a step of a refresh that holds the item o in its snapshot of
\* the collections, or a step of a re-check and o is in the collections
ProbedBy(o) ==
    \/ /\ last'.op = "loadEmulators"
       /\ \E s \in Slots : /\ procs[s].kind = "refresh"
                           /\ o \in Range(procs[s].existingIOS)
                                      \cup Range(procs[s].existingAndroid)
    \/ /\ last'.op = "checkStatusChanges"
       /\ o \in Rows

\* C4 as the program has it: the status of an item changes only (a) to
\* starting, in the step of startEmulator that takes the click, for the record
\* found under the id of the clicked item, the clicked item not being running;
\* (b) to stopped, in the catch block of startEmulator, for a record with the
\* id of the clicked item; (c) to what the probe reports, in a step of a
\* refresh or of a re-check, whatever the status was (stopped to running and,
\* for an AVD, running to starting included); a simulator is never set to
\* starting by a probe.
C4_StatusChangesByBootOrProbe ==
    [][\A o \in DOMAIN heap \cap DOMAIN heap' :
         heap'[o].status # heap[o].status
           => \/ /\ boots' = boots + 1
                 /\ o = last'.info.marked
                 /\ heap'[o].status = "starting"
                 /\ heap[last'.info.item].status # "running"
              \/ /\ BootFails
                 /\ heap'[o].status = "stopped"
                 /\ heap[o].id = heap[last'.info.item].id
              \/ /\ ProbedBy(o)
                 /\ heap'[o].status \in AndroidStatuses
                 /\ heap[o].platform = "ios"
                      => heap'[o].status \in {"running", "stopped"}]_vars

\* on a Mac without AVDs, no boot requested: a re-check found a change and
\* every simulator in the collection is running, so that a record went from
\* stopped to running on the word of a probe
C4_Witness ==
    /\ host = "darwin"
    /\ boots = 0
    /\ last.op = "checkStatusChanges"
    /\ last.info.done
    /\ last.events = <<Fire>>
    /\ IOSRecords(iosEmulators) # {}
    /\ \A o \in IOSRecords(iosEmulators) : heap[o].status = "running"

\* C8: the step of startEmulator that takes the click on a stored device
\* record that is not running leaves that record starting and fires the change
\* event first, and starts no subprocess in that step: the boot subprocess is
\* started by a later step, whatever it answers.
C8_BootRequestMarksStarting ==
    [][(/\ boots' = boots + 1
        /\ last'.info.item \in Records(heap, iosEmulators, androidEmulators)
        /\ heap[last'.info.item].status # "running")
         => /\ heap'[last'.info.item].status = "starting"
            /\ last'.events # <<>>
            /\ last'.events[1] = Fire
            /\ \A k \in 1..Len(last'.events) : last'.events[k][1] # "spawn"]_vars

\* C9: when the boot of a boot request fails, the step that handles the
\* failure shows one error message and, if the record that the request set to
\* starting is still in the collections, leaves it stopped and fires the change
\* event after the message.
C9_BootFailureRollsBack ==
    [][BootFails
         => /\ Count(last'.events, ShowError) = 1
            /\ last'.info.marked \in Rows'
                 => /\ heap'[last'.info.marked].status = "stopped"
                    /\ last'.events[Len(last'.events)] = Fire]_vars

\* a boot failed after `xcrun simctl boot` and the record it had marked is in
\* the collection, stopped again, the message shown and the event fired
C9_Witness ==
    /\ last.op = "startEmulator"
    /\ last.info.outcome = "failed"
    /\ last.info.pc = "simctl"
    /\ last.info.marked \in Rows
    /\ heap[last.info.marked].status = "stopped"
    /\ last.events = <<ShowError, Fire>>

\* `xcrun simctl boot` failed and its stderr says "already booted"
AlreadyBooted(info) ==
    /\ info.pc = "simctl"
    /\ ~info.answer.success
    /\ Includes(info.answer.stderr, STR_already_booted)

\* C10: when `xcrun simctl boot` fails with "already booted" in its stderr,
\* startEmulator goes on as after a boot that succeeded: it shows no error
\* message, leaves the status of every item as it is (no rollback) and
\* schedules the one re-check in 2000 ms.
C10_AlreadyBootedIsSuccess ==
    [][(last'.op = "startEmulator" /\ AlreadyBooted(last'.info))
         => /\ last'.info.outcome = "returned"
            /\ last'.events = <<SetTimeout("2000")>>
            /\ timers' = timers + 1
            /\ \A o \in DOMAIN heap \cap DOMAIN heap' :
                 heap'[o].status = heap[o].status]_vars

\* the boot of a stored record returned on "already booted" and the record is
\* still starting
C10_Witness ==
    /\ last.op = "startEmulator"
    /\ AlreadyBooted(last.info)
    /\ last.info.outcome = "returned"
    /\ last.info.marked \in Rows
    /\ heap[last.info.marked].status = "starting"


\* the identifier of the item fails the validator of its platform
FailsValidation(item) ==
    \/ item.platform = "ios" /\ item.udid # <<>> /\ ~validateUDID(item.udid)
    \/ item.platform = "android" /\ item.name # <<>> /\ ~validateAVDName(item.name)

\* the boot calls in flight
BootsInFlight(ps) == {s \in Slots : ps[s].kind = "boot"}

\* the boot calls that wait for the rejection of their boot function to be
\* delivered
RejectedBoots(ps) == {s \in BootsInFlight(ps) : ps[s].pc = "rejected"}

\* C11 as stated: every boot request for an item whose UDID or AVD name fails
\* its validator starts no subprocess, and the failure is shown as an error
\* message: the request leaves a rejected boot function behind, and its
\* rejection is shown.
C11_InvalidRequestShowsError ==
    [][/\ (boots' = boots + 1 /\ FailsValidation(heap[last'.info.item]))
          => /\ \A k \in 1..Len(last'.events) : last'.events[k][1] # "spawn"
             /\ RejectedBoots(procs') # RejectedBoots(procs)
       /\ \A s \in RejectedBoots(procs) :
             procs'[s] # procs[s] => Count(last'.events, ShowError) = 1]_vars

\* C11: a boot request for an item whose UDID or AVD name fails its validator
\* starts no subprocess and waits for no probe.  When the item is not Running
\* the boot function is called and throws at its validator: the request
\* leaves the record marked Starting and the rejection pending, and the next
\* step of that request shows one error message and sets the record back to
\* Stopped.  When the item is Running the request is ignored before the
\* validator is reached, and nothing is shown.  No step of a boot starts a
\* subprocess for an item whose identifier fails its validator.
C11_InvalidIdentifierIsRejected ==
    [][/\ (boots' = boots + 1 /\ FailsValidation(heap[last'.info.item]))
          => /\ \A k \in 1..Len(last'.events) : last'.events[k][1] # "spawn"
             /\ IF heap[last'.info.item].status = "running"
                THEN last'.events = <<>>
                     /\ BootsInFlight(procs') = BootsInFlight(procs)
                ELSE /\ Count(last'.events, ShowError) = 0
                     /\ \E s \in Slots :
                           /\ procs[s] = Idle
                           /\ RejectedBoots(procs') = RejectedBoots(procs) \cup {s}
                           /\ BootsInFlight(procs') = BootsInFlight(procs) \cup {s}
                           /\ procs'[s].item = last'.info.item
       /\ \A s \in BootsInFlight(procs') :
             FailsValidation(heap'[procs'[s].item]) => s \in RejectedBoots(procs')
       /\ \A s \in RejectedBoots(procs) :
             procs'[s] # procs[s]
               => /\ procs'[s] = Idle
                  /\ Count(last'.events, ShowError) = 1
                  /\ \A k \in 1..Len(last'.events) : last'.events[k][1] # "spawn"
                  /\ LET found == FindStored(heap, iosEmulators, androidEmulators,
                                              procs[s].item)
                     IN  found # NoRef => heap'[found].status = "stopped"
       /\ (/\ last'.op = "startEmulator"
           /\ \E k \in 1..Len(last'.events) : last'.events[k][1] = "spawn")
          => ~FailsValidation(heap[last'.info.item])]_vars

\* a boot request for a stored item whose identifier fails its validator was
\* rejected with an error message after the record had been marked
C11_Witness ==
    /\ last.op = "startEmulator"
    /\ last.info.pc = "rejected"
    /\ last.info.outcome = "failed"
    /\ last.info.item \in Rows
    /\ last.info.marked # NoRef
    /\ FailsValidation(heap[last.info.item])
    /\ heap[last.info.marked].status = "stopped"
    /\ Count(last.events, ShowError) = 1


\* this step is the step of a re-check in which an availability probe
\* answered false or a listing threw
ProbeFails ==
    \E s \in Slots :
        \/ \E outcome \in IOSAnswers(host) :
              outcome.kind # "list" /\ CheckIOSStep(s, outcome)
        \/ \E outcome \in AndroidAnswers(host) :
              outcome.kind # "list" /\ CheckAndroidListStep(s, outcome)

\* this step is the step of a re-check in which getAndroidEmulatorStatus
\* answered after its subprocesses could not be run
StatusQueryFails ==
    \E s \in Slots, newStatus \in AndroidStatuses :
        CheckAndroidStatusStep(s, newStatus, TRUE)

\* the records in items have the same status before and after the step
KeepStatus(items) == \A o \in items : heap'[o].status = heap[o].status

\* the step shows no error message, leaves every re-check running or ended
\* (no exception leaves it), and leaves the store and the status of every
\* record as they were
SilentAndKept ==
    /\ Count(last'.events, ShowError) = 0
    /\ \A s \in Slots : procs[s].kind = "recheck"
                          => procs'[s].kind \in {"recheck", "idle"}
    /\ iosEmulators' = iosEmulators
    /\ androidEmulators' = androidEmulators
    /\ KeepStatus(Records(heap, iosEmulators, androidEmulators))

\* C12 for the availability probes and the listings: a failure of one of them
\* in a re-check is silent and changes no record.
C12_FailedProbeKeepsRecords == [][ProbeFails => SilentAndKept]_vars

\* C12: a failure of an availability probe, of a listing or of a status query
\* in a re-check shows no error message, rejects nothing, and leaves the
\* records with the status and the membership they had.
C12_FailedRecheckKeepsRecords ==
    [][ProbeFails \/ StatusQueryFails => SilentAndKept]_vars


\* the item o shows the failure outcome: the warning icon when the tool is
\* not available, the error icon and the message of the error when the
\* listing threw
ShowsFailure(h, o, outcome) ==
    IF outcome.kind = "error"
    THEN h[o].icon = "$(error)" /\ h[o].label = outcome.message
    ELSE h[o].icon = "$(warning)"

\* C13: in a refresh, a platform that is unavailable or whose listing fails
\* gets a collection of exactly one placeholder item, with the warning icon
\* or with the error icon and the message of the failure; no error message is
\* shown and the refresh goes on; the collection of the other platform is the
\* one the same refresh built from its own listing.
C13_FailingPlatformGetsPlaceholder ==
    [][\A s \in Slots :
         /\ \A outcome \in IOSAnswers(host) :
               (outcome.kind # "list" /\ LoadIOSStep(s, outcome))
                 => /\ Len(procs'[s].iosItems) = 1
                    /\ ~procs'[s].iosItems[1].isSubtype
                    /\ ShowsFailure(heap', procs'[s].iosItems[1].item, outcome)
                    /\ procs'[s].pc = "android"
                    /\ Count(last'.events, ShowError) = 0
         /\ \A outcome \in AndroidAnswers(host) :
               (outcome.kind # "list" /\ LoadAndroidListStep(s, outcome))
                 => /\ Len(androidEmulators') = 1
                    /\ ShowsFailure(heap', androidEmulators'[1], outcome)
                    /\ AndroidRecords(heap', androidEmulators') = {}
                    /\ iosEmulators' = procs[s].iosItems
                    /\ procs'[s] = Idle
                    /\ Count(last'.events, ShowError) = 0
         /\ (Completes(s) /\ ~IOSListed(procs[s]))
                 => /\ iosEmulators' = procs[s].iosItems
                    /\ Len(iosEmulators') = 1
                    /\ last'.info.android = "list"
                         => Ids(heap', AndroidRecords(heap', androidEmulators'))
                              = ListedAndroidIds(procs[s])
                    /\ Count(last'.events, ShowError) = 0]_vars

\* a refresh ended with the placeholder of missing Xcode as the iOS collection
\* and with the records of the listed AVDs as the Android collection
C13_Witness ==
    /\ last.op = "loadEmulators"
    /\ last.info.done
    /\ last.info.android = "list"
    /\ Len(iosEmulators) = 1
    /\ ~iosEmulators[1].isSubtype
    /\ heap[iosEmulators[1].item].icon = "$(warning)"
    /\ AndroidRecords(heap, androidEmulators) # {}


\* this step is a step of checkStatusChanges, its start by a timer included
RecheckStep == last'.op \in {"pollTick", "timer", "checkStatusChanges"}

\* an item without the two fields a re-check writes
WithoutStatus(item) == [item EXCEPT !.status = "", !.icon = ""]

\* C14: a step of a re-check leaves both collections as they are (no record
\* added, none removed, the same objects in the same groups), creates no item
\* (a listed device that is not in the store is ignored), and changes no
\* field of an item other than status and icon.
C14_RecheckWritesStatusOnly ==
    [][RecheckStep
          => /\ iosEmulators' = iosEmulators
             /\ androidEmulators' = androidEmulators
             /\ DOMAIN heap' \subseteq DOMAIN heap
             /\ \A o \in DOMAIN heap' :
                    WithoutStatus(heap'[o]) = WithoutStatus(heap[o])]_vars

\* a re-check ended after it changed the status of a record
C14_Witness ==
    /\ last.op = "checkStatusChanges"
    /\ last.info.done
    /\ Count(last.events, Fire) = 1


\* the setTimeout calls of a step, in program order
Timeouts(events) == SelectSeq(events, LAMBDA e : e[1] = "setTimeout")

\* this step ends a startEmulator call whose boot function returned
BootReturns == last'.op = "startEmulator" /\ last'.info.outcome = "returned"

\* the item is an AVD, which startEmulator boots with bootAndroidEmulator
IsAVD(item) == item.platform = "android" /\ item.name # <<>>

\* C16 as stated: the step in which the boot function returns schedules four
\* re-checks, after 1, 2, 3 and 5 s, whatever the platform of the record.
C16_FourRechecksForEveryPlatform ==
    [][BootReturns
          => /\ Len(Timeouts(last'.events)) = 4
             /\ \A ms \in {"1000", "2000", "3000", "5000"} :
                    Count(last'.events, SetTimeout(ms)) = 1]_vars

\* C16: the step in which the boot function returns schedules, for an AVD,
\* four re-checks, after 1, 3, 5 and 2 s, and for every other item one
\* re-check, after 2 s; a step of startEmulator in which the boot function
\* has not returned, and the one in which it failed, schedules none.
C16_RechecksAfterBoot ==
    [][last'.op = "startEmulator"
          => /\ timers' = timers + Len(Timeouts(last'.events))
             /\ IF last'.info.outcome # "returned"
                THEN Timeouts(last'.events) = <<>>
                ELSE IF IsAVD(heap[last'.info.item])
                THEN Timeouts(last'.events)
                       = <<SetTimeout("1000"), SetTimeout("3000"),
                           SetTimeout("5000"), SetTimeout("2000")>>
                ELSE Timeouts(last'.events) = <<SetTimeout("2000")>>]_vars

\* bootIOSSimulator returned for a simulator and one re-check was scheduled
C16_Witness ==
    /\ last.op = "startEmulator"
    /\ last.info.outcome = "returned"
    /\ last.info.pc \in {"simctl", "open"}
    /\ Timeouts(last.events) = <<SetTimeout("2000")>>
    /\ timers > 0

\* bootAndroidEmulator returned for an AVD and four re-checks were scheduled
C16_WitnessAVD ==
    /\ last.op = "startEmulator"
    /\ last.info.outcome = "returned"
    /\ last.info.pc \in {"probe", "spawned"}
    /\ Len(Timeouts(last.events)) = 4


\* the item o, in a group of the category subtype, has the category and the
\* version derived from one of the listed simulators sims that has its UDID
DerivedFrom(h, o, subtype, sims) ==
    \E sim \in Range(sims) :
        /\ h[o].id = STR_ios_ \o sim.udid
        /\ h[o].subtype = SubtypeTable[sim]
        /\ h[o].iosVersion = VersionTable[sim.runtime]
        /\ subtype = SubtypeTable[sim]

\* every item of every group of entries has the category of its group
InOwnGroup(h, entries) ==
    \A k \in 1..Len(entries) :
        \A o \in Range(entries[k].children) : h[o].subtype = entries[k].subtype

\* C17: the iOS items a refresh builds from a listing, those of records that
\* existed before included, have the category and the version derived from
\* the listed simulator and are in the group of that category; and when a
\* refresh with a successful iOS listing completes, every iOS record of the
\* store is in the group of its own category.
C17_DerivedFieldsFollowListing ==
    [][\A s \in Slots :
         /\ \A outcome \in IOSAnswers(host) :
               (outcome.kind = "list" /\ LoadIOSStep(s, outcome))
                 => \A k \in 1..Len(procs'[s].iosItems) :
                      \A o \in Range(procs'[s].iosItems[k].children) :
                         DerivedFrom(heap', o, procs'[s].iosItems[k].subtype,
                                     parseIOSSimulatorList(outcome.devices))
         /\ (Completes(s) /\ IOSListed(procs[s]))
               => InOwnGroup(heap', iosEmulators')]_vars


\* getAndroidEmulatorStatus has returned
Returned == last.op = "getAndroidEmulatorStatus"

\* the serial dev passes at least one of the three liveness checks
Live(dev) == ServiceListPasses(dev) \/ DumpsysPasses(dev) \/ BootCompletedPasses(dev)

\* the status of a serial by the rule of C20
Classified(dev) ==
    IF dev.status = "device" /\ Live(dev) THEN "running" ELSE "starting"

\* C18: with two or more emulator serials attached of which none resolves to
\* the queried name, and the queried name found by the process scan,
\* getAndroidEmulatorStatus returns Stopped.
C18_SeveralDevicesGiveStopped ==
    (/\ Returned
     /\ Len(last.info.devices) >= 2
     /\ \A k \in 1..Len(last.info.devices) :
            getEmulatorAVDName(last.info.devices[k]) # last.info.emulatorName
     /\ last.info.foundInProcesses)
      => last.info.status = "stopped"

\* C19: when the queried name is not in the map and the process scan finds
\* it, getAndroidEmulatorStatus returns the classified status of the one
\* attached emulator serial, whether its name resolved or not, and Starting
\* when no emulator serial is attached.
C19_OneDeviceGivesItsStatus ==
    (/\ Returned
     /\ last.info.emulatorName \notin DOMAIN last.info.runningEmulators
     /\ last.info.foundInProcesses)
      => /\ Len(last.info.devices) = 1
              => last.info.status = Classified(last.info.devices[1])
         /\ Len(last.info.devices) = 0 => last.info.status = "starting"

\* the liveness checks of isAndroidSystemRunning, as subprocesses
LivenessCalls ==
    {"service list", "dumpsys activity services", "getprop sys.boot_completed"}

\* C20: for every attached emulator serial whose AVD name resolves, the
\* status recorded for the name is Running if the serial is in the state
\* "device" and passes one of the three liveness checks, and Starting
\* otherwise; for a serial in another state no liveness check is run; the map
\* holds for each name the status recorded by the last serial with that name.
C20_RunningIffReadyAndLive ==
    Returned
      => \A k \in 1..Len(last.info.devices) :
            LET dev == last.info.devices[k]
                avdName == getEmulatorAVDName(dev)
            IN  avdName # <<>>
                  => /\ last.info.recorded[k] \in {"running", "starting"}
                     /\ last.info.recorded[k] = "running"
                          <=> (dev.status = "device" /\ Live(dev))
                     /\ dev.status # "device"
                          => \A c \in 1..Len(last.info.calls[k]) :
                                 last.info.calls[k][c] \notin LivenessCalls
                     /\ avdName \in DOMAIN last.info.runningEmulators
                     /\ (\A j \in (k + 1)..Len(last.info.devices) :
                            getEmulatorAVDName(last.info.devices[j]) # avdName)
                          => last.info.runningEmulators[avdName]
                               = last.info.recorded[k]

\* the call returned for two serials with resolved names, one in the state
\* "device" that passes only the third liveness check and is recorded as
\* Running, one offline that is recorded as Starting
C20_Witness ==
    /\ Returned
    /\ Len(last.info.devices) = 2
    /\ last.info.devices[1].status = "device"
    /\ ~ServiceListPasses(last.info.devices[1])
    /\ ~DumpsysPasses(last.info.devices[1])
    /\ last.info.recorded[1] = "running"
    /\ last.info.devices[2].status = "offline"
    /\ last.info.recorded[2] = "starting"


\* the object references that the records of the machine of SpecFair get
FairRefs ==
    { <<id, n>> : id \in {STR_ios_ \o UDID1, STR_android_ \o <<"A">>},
                  n \in 1..(MaxRefreshes + 1) }

\* o is a record of the store and its status is Starting
StoredStarting(o) ==
    /\ o \in Records(heap, iosEmulators, androidEmulators)
    /\ heap[o].status = "starting"

\* C15: under the scheduling of SpecFair, with probes that go on answering,
\* no record stays Starting forever: a record that is Starting, the one set
\* to Starting by a boot request that succeeded included, is later a record
\* with the status Running or Stopped that a probe reported (or is no longer
\* in the store).
C15_StartingConverges ==
    \A o \in FairRefs : StoredStarting(o) ~> ~StoredStarting(o)

\* the boot function returned for a record that the request set to Starting
\* and that is still Starting, and the re-checks are scheduled
C15_Witness ==
    /\ last.op = "startEmulator"
    /\ last.info.outcome = "returned"
    /\ last.info.marked \in FairRefs
    /\ StoredStarting(last.info.marked)
    /\ timers > 0


\* the step is the step of the re-check in slot s in which
\* getAndroidEmulatorStatus answered for the AVD list[k]
StatusAnswered(s) ==
    \E newStatus \in AndroidStatuses, failed \in BOOLEAN :
        CheckAndroidStatusStep(s, newStatus, failed)

\* the id of the device whose status the re-check in slot s is waiting for
ProbedId(s) == STR_android_ \o procs[s].list[procs[s].k].name

\* C29: in every interleaving, the status that a re-check got by probing the
\* device d is written only to a record whose id is the id of d: the step in
\* which the status query answers changes the status of no other record, also
\* when a refresh has replaced the collection since the re-check looked d up.
C29_StatusGoesToProbedRecord ==
    [][\A s \in Slots :
          StatusAnswered(s)
            => \A o \in Records(heap, iosEmulators, androidEmulators) :
                  heap'[o].status # heap[o].status => heap[o].id = ProbedId(s)]_vars


\* the names that the three methods of getEmulatorAVDName can read for the
\* serial dev, each from its own subprocess
NamedBy(dev) ==
    {EmuAvdName(dev.emu), PropAvdName(dev.bootProp), PropAvdName(dev.kernelProp)}
        \ {<<>>}

\* C30: whatever its subprocesses answer, getAndroidEmulatorStatus returns
\* Running, Starting or Stopped.  A serial for which some method reads a name
\* is recorded although an earlier method failed; a recorded serial in the
\* state "device" that passes some liveness check is Running although an
\* earlier check failed; when the device list gives no serial the answer is
\* the one of the process scan (Starting if it finds the name, Stopped if
\* not); and the answer is Stopped when no serial is recorded under the
\* queried name and the process scan does not find it.
C30_EveryFailureFallsThrough ==
    Returned
      => /\ last.info.status \in {"running", "starting", "stopped"}
         /\ \A k \in 1..Len(last.info.devices) :
               LET dev == last.info.devices[k]
               IN  /\ NamedBy(dev) # {} => last.info.recorded[k] # "none"
                   /\ (/\ last.info.recorded[k] # "none"
                       /\ dev.status = "device"
                       /\ Live(dev)) => last.info.recorded[k] = "running"
         /\ Len(last.info.devices) = 0
               => last.info.status = IF last.info.foundInProcesses
                                     THEN "starting" ELSE "stopped"
         /\ (/\ last.info.emulatorName \notin DOMAIN last.info.runningEmulators
             /\ ~last.info.foundInProcesses) => last.info.status = "stopped"

\* the call returned Running for a name that only the third method reads,
\* from a serial that passes only the second liveness check
C30_Witness ==
    /\ Returned
    /\ Len(last.info.devices) = 1
    /\ ~last.info.devices[1].emu.success
    /\ PropAvdName(last.info.devices[1].bootProp) = <<>>
    /\ PropAvdName(last.info.devices[1].kernelProp) = last.info.emulatorName
    /\ ~ServiceListPasses(last.info.devices[1])
    /\ DumpsysPasses(last.info.devices[1])
    /\ ~last.info.foundInProcesses
    /\ last.info.status = "running"


\* the parser has returned
Parsed == last.op = "parseIOSSimulatorList"

\* the top-level object of the document has the one member "devices"
IsWrapped(data) == Len(data) = 1 /\ data[1][1] = STR_devices

\* the number of device objects under the runtimes before the k-th of map
RECURSIVE DevicesBefore(_, _)
DevicesBefore(map, k) ==
    IF k <= 1 THEN 0 ELSE DevicesBefore(map, k - 1) + Len(map[k - 1][2])

\* sims holds one record per device object of map, each with its own runtime
\* if that is not empty and with the key it is listed under otherwise
OnePerDevice(map, sims) ==
    /\ Len(sims) = DevicesBefore(map, Len(map) + 1)
    /\ \A k \in 1..Len(map) : \A i \in 1..Len(map[k][2]) :
          LET device == map[k][2][i]
          IN  sims[DevicesBefore(map, k) + i]
                = [device EXCEPT !.runtime = IF device.runtime # <<>>
                                             THEN device.runtime ELSE map[k][1]]

\* the listing of the example: one booted iPhone 15 with an empty runtime
\* under the key "iOS-17-0"
ExampleMap == << <<RuntimeKey1, <<PhoneSim("Booted", <<>>)>> >> >>

\* the result for the example: one record with the runtime "iOS-17-0", and in
\* the store one item of the category iPhone, version "17.0", status running
ExampleResult(info) ==
    /\ info.simulators = <<PhoneSim("Booted", RuntimeKey1)>>
    /\ Cardinality(DOMAIN info.loaded.heap) = 1
    /\ \A o \in DOMAIN info.loaded.heap :
          /\ info.loaded.heap[o].subtype = "iPhone"
          /\ info.loaded.heap[o].iosVersion = <<"1","7",".","0">>
          /\ info.loaded.heap[o].status = "running"

\* C25 as stated: the runtime map is the top-level object of the document.
C25_TopLevelMapGivesRecords ==
    (Parsed /\ ~IsWrapped(last.info.data))
      => /\ OnePerDevice(last.info.data, last.info.simulators)
         /\ last.info.data = ExampleMap => ExampleResult(last.info)

\* C25: for a document whose top-level object holds, as its member "devices",
\* a map of runtime identifiers to arrays of device objects, the parser
\* returns one record per device object over all runtimes, each with its own
\* non-empty runtime and otherwise with its key; for the example listing the
\* result is one record with runtime "iOS-17-0", which loadEmulators stores
\* with category iPhone, version "17.0" and status running.  A document whose
\* top-level object is itself the map gives no record.
C25_DevicesMemberGivesRecords ==
    Parsed
      => IF IsWrapped(last.info.data)
         THEN /\ OnePerDevice(last.info.data[1][2], last.info.simulators)
              /\ last.info.data[1][2] = ExampleMap => ExampleResult(last.info)
         ELSE /\ last.info.simulators = <<>>
              /\ DOMAIN last.info.loaded.heap = {}

\* the parser returned for the example listing under the member "devices"
C25_Witness ==
    /\ Parsed
    /\ last.info.data = << <<STR_devices, ExampleMap>> >>
    /\ Len(last.info.simulators) = 1


\* s[a..b] is a non-empty run of digits
IsDigitRun(s, a, b) == a <= b /\ b <= Len(s) /\ \A k \in a..b : s[k] \in Digits

\* s[a..b] reads major.minor or major.minor.patch
IsVersion(s, a, b) ==
    \E d \in (a + 1)..(b - 1) :
        /\ s[d] = "."
        /\ IsDigitRun(s, a, d - 1)
        /\ \/ IsDigitRun(s, d + 1, b)
           \/ \E e \in (d + 2)..(b - 1) :
                 /\ s[e] = "."
                 /\ IsDigitRun(s, d + 1, e - 1)
                 /\ IsDigitRun(s, e + 1, b)

\* the longest major.minor[.patch] that starts at a, <<>> if none starts there
NumberAt(s, a) ==
    LET ends == {b \in a..Len(s) : IsVersion(s, a, b)}
    IN  IF ends = {} THEN <<>>
        ELSE SubSeq(s, a, CHOOSE b \in ends : \A c \in ends : c <= b)

\* the positions after an OS name (in any letter case) that starts at p
AfterOSName(s, p) ==
    {p + Len(OSNames[n]) : n \in {m \in 1..Len(OSNames) :
                                     StartsAtIgnoreCase(s, p, OSNames[m])}}

\* pattern (1) at p: an OS name, whitespace, and the number after it
NamedNumberAt(s, p) ==
    LET starts == {a \in 1..Len(s) :
                     /\ \E n \in AfterOSName(s, p) :
                           n < a /\ \A k \in n..(a - 1) : s[k] \in WhiteSpace
                     /\ NumberAt(s, a) # <<>>}
    IN  IF starts = {} THEN <<>> ELSE NumberAt(s, CHOOSE a \in starts : TRUE)

\* pattern (2) at p: an OS name and -major-minor, read as "major.minor" with
\* the longest minor
SlugAt(s, p) ==
    LET hits == {x \in (1..Len(s)) \X (1..Len(s)) :
                   \E n \in AfterOSName(s, p) :
                      /\ n <= Len(s) /\ s[n] = "-"
                      /\ IsDigitRun(s, n + 1, x[1])
                      /\ x[1] + 1 <= Len(s) /\ s[x[1] + 1] = "-"
                      /\ IsDigitRun(s, x[1] + 2, x[2])}
    IN  IF hits = {} THEN <<>>
        ELSE LET x == CHOOSE y \in hits : \A z \in hits : z[2] <= y[2]
                 n == CHOOSE m \in AfterOSName(s, p) : TRUE
             IN  SubSeq(s, n + 1, x[1]) \o <<".">> \o SubSeq(s, x[1] + 2, x[2])

\* what one of the three patterns of C26 gives at its leftmost place in s
Leftmost(s, At(_, _)) ==
    LET places == {p \in 1..Len(s) : At(s, p) # <<>>}
    IN  IF places = {} THEN <<>>
        ELSE At(s, CHOOSE p \in places : \A q \in places : p <= q)

\* the version by the rule of C26
VersionByRule(s) ==
    IF Leftmost(s, NamedNumberAt) # <<>> THEN Leftmost(s, NamedNumberAt)
    ELSE IF Leftmost(s, SlugAt) # <<>> THEN Leftmost(s, SlugAt)
    ELSE Leftmost(s, NumberAt)

\* C26: extractIOSVersion returns what the first of these gives: (1) an OS
\* name followed by whitespace and major.minor[.patch], that number; (2) an
\* OS name followed by -major-minor, "major.minor"; (3) the first bare
\* major.minor[.patch]; and nothing when none matches.  The slug of watchOS
\* 10.2 gives "10.2", "iOS 16.4" gives "16.4", "garbage" gives nothing.
C26_FirstPatternWins ==
    last.op = "extractIOSVersion"
      => /\ last.info.version = VersionByRule(last.info.runtime)
         /\ last.info.runtime = RuntimeSlug
               => last.info.version = <<"1","0",".","2">>
         /\ last.info.runtime = RuntimeKey2
               => last.info.version = <<"1","6",".","4">>
         /\ last.info.runtime = RuntimeGarbage => last.info.version = <<>>

\* the function returned "1.27" for "tvos-1-271.2": the slug wins over the
\* bare number after it
C26_Witness ==
    /\ last.op = "extractIOSVersion"
    /\ last.info.runtime = <<"t","v","o","s","-","1","-","2","7","1",".","2">>
    /\ last.info.version = <<"1",".","2","7","1">>


\* the pieces of s between its hyphens
RECURSIVE HyphenGroups(_, _)
HyphenGroups(s, group) ==
    IF s = <<>> THEN <<group>>
    ELSE IF Head(s) = "-" THEN <<group>> \o HyphenGroups(Tail(s), <<>>)
    ELSE HyphenGroups(Tail(s), Append(group, Head(s)))

\* s has the canonical grouping: five groups of 8, 4, 4, 4 and 12 hexadecimal
\* digits, in any letter case, with a hyphen between them and nothing else
IsCanonicalUUID(s) ==
    LET groups == HyphenGroups(s, <<>>)
    IN  /\ [k \in 1..Len(groups) |-> Len(groups[k])] = <<8, 4, 4, 4, 12>>
        /\ \A k \in 1..5 : \A i \in 1..Len(groups[k]) :
              LowerChar(groups[k][i]) \in Digits \cup {"a", "b", "c", "d", "e", "f"}

\* C23: validateUDID accepts exactly the strings of the canonical 8-4-4-4-12
\* hexadecimal grouping, in any letter case: a string that misses a hyphen, has
\* another character in a group, or has characters before or after the UUID
\* is rejected.
C23_AcceptsExactlyUUIDs ==
    last.op = "validateUDID"
      => (last.info.valid <=> IsCanonicalUUID(last.info.input))

\* validateUDID accepted a UUID in lower case
C23_Witness ==
    /\ last.op = "validateUDID"
    /\ last.info.input = UDID5
    /\ last.info.valid

\* C24: validateAVDName accepts exactly the strings of 1 to 99 characters that
\* are all letters, digits, underscores or hyphens: the empty string, a string
\* of 100 or more characters, and a string with another character (a space, a
\* slash) are rejected.
C24_AcceptsExactlyAVDNames ==
    last.op = "validateAVDName"
      => (last.info.valid
            <=> /\ Len(last.info.input) \in 1..99
                /\ Range(last.info.input)
                     \subseteq Range(LowerCase) \cup Range(UpperCase) \cup Digits
                               \cup {"_", "-"})

\* validateAVDName accepted a name of 99 characters
C24_Witness ==
    /\ last.op = "validateAVDName"
    /\ Len(last.info.input) = 99
    /\ last.info.valid


\* the places of the tool in the order of C27: under the SDK root that the
\* environment names (ANDROID_HOME, and ANDROID_SDK_ROOT when that is not
\* set), the default paths of the OS, the bare name
PlacesInOrder(m, dir, tool) ==
    (IF m.ANDROID_HOME # <<>> THEN << m.ANDROID_HOME \o <<dir, ExeOf(m, tool)>> >>
     ELSE IF m.ANDROID_SDK_ROOT # <<>>
     THEN << m.ANDROID_SDK_ROOT \o <<dir, ExeOf(m, tool)>> >>
     ELSE <<>>)
    \o DefaultPaths(m, dir, tool)
    \o << <<ExeOf(m, tool)>> >>

\* the place is a hit: the bare name if the lookup finds it, a path if the
\* file exists
IsHit(m, place) == IF Len(place) = 1 THEN m.which ELSE place \in m.files

\* result is the first hit of places, and no path if there is no hit
FirstHit(m, places, result) ==
    IF result = NoPath THEN \A j \in 1..Len(places) : ~IsHit(m, places[j])
    ELSE \E j \in 1..Len(places) :
            /\ result = places[j]
            /\ IsHit(m, places[j])
            /\ \A i \in 1..(j - 1) : ~IsHit(m, places[i])

\* C27: getAndroidEmulatorPath and getAndroidAdbPath return the first hit in
\* the order: the binary under the SDK root of the environment if that file
\* exists, the first default path of the OS that exists, the bare name if
\* which/where finds it; and no path when there is no hit.  A hit is never
\* returned when a hit of higher precedence exists.
C27_FirstHitInOrder ==
    /\ last.op = "getAndroidEmulatorPath"
          => FirstHit(last.info.machine,
                      PlacesInOrder(last.info.machine, "emulator", "emulator"),
                      last.info.result)
    /\ last.op = "getAndroidAdbPath"
          => FirstHit(last.info.machine,
                      PlacesInOrder(last.info.machine, "platform-tools", "adb"),
                      last.info.result)

\* getAndroidAdbPath returned the path under the SDK root of the environment
\* on a machine where a default path exists and the bare name is found too
C27_Witness ==
    /\ last.op = "getAndroidAdbPath"
    /\ last.info.machine.ANDROID_SDK_ROOT # <<>>
    /\ last.info.result
         = last.info.machine.ANDROID_SDK_ROOT \o <<"platform-tools", "adb">>
    /\ \E k \in 1..Len(getDefaultAdbPaths(last.info.machine)) :
          getDefaultAdbPaths(last.info.machine)[k] \in last.info.machine.files
    /\ last.info.machine.which

\* the emulator binary exists under the SDK root that the variable names
UnderRoot(m, root) ==
    root # <<>> /\ (root \o <<"emulator", ExeOf(m, "emulator")>>) \in m.files

\* C28: checkAndroidAvailable returns true if and only if the version probe
\* of the bare name succeeds, or the emulator binary exists under the SDK
\* root named by ANDROID_HOME or under the one named by ANDROID_SDK_ROOT, or
\* it exists at one of the default paths of the OS.
C28_AvailableIffBinaryFound ==
    last.op = "checkAndroidAvailable"
      => (last.info.result
            <=> \/ last.info.machine.runs
                \/ UnderRoot(last.info.machine, last.info.machine.ANDROID_HOME)
                \/ UnderRoot(last.info.machine, last.info.machine.ANDROID_SDK_ROOT)
                \/ \E k \in 1..Len(getDefaultAndroidPaths(last.info.machine)) :
                      getDefaultAndroidPaths(last.info.machine)[k]
                        \in last.info.machine.files)

(***************************************************************************)
(* executeCommand on its own                                               *)
(***************************************************************************)

DEFAULT_TIMEOUT == 30000
\* the output cap given to execFile
maxBuffer == 10 * 1024 * 1024
\* an output stream is modelled by its length in bytes; the child writes it
\* in chunks of this size
ChunkBytes == 4 * 1024 * 1024

STR_timeout == "timeout"

\* the options objects of the calls: none given, and a timeout of 0, 3000
\* and -1 milliseconds
ExecOptions ==
    { <<>>, << <<STR_timeout, 0>> >>, << <<STR_timeout, 3000>> >>,
      << <<STR_timeout, 0 - 1>> >> }

\* options.timeout || DEFAULT_TIMEOUT: an absent member and 0 are falsy
EffectiveTimeout(options) ==
    LET given == {k \in 1..Len(options) : options[k][1] = STR_timeout}
    IN  IF given = {} THEN DEFAULT_TIMEOUT
        ELSE LET v == options[CHOOSE k \in given : TRUE][2]
             IN  IF v = 0 THEN DEFAULT_TIMEOUT ELSE v

\* a settled promise
Fulfilled(value) == [state |-> "fulfilled", value |-> value]
Rejected(reason) == [state |-> "rejected", reason |-> reason]

\* the rejection of the timer promise
CommandTimeout == [message |-> "Command timeout"]

\* the code of the error execFile keeps when a stream passes maxBuffer
STR_MAXBUFFER == "ERR_CHILD_PROCESS_STDIO_MAXBUFFER"

\* the message of that error
MaxBufferExceeded(stream) ==
    IF stream = "stdout" THEN "stdout maxBuffer length exceeded"
                         ELSE "stderr maxBuffer length exceeded"

\* what execFile's exit handler settles its promise with when the child has
\* closed with this code and signal: p.ex is the message of the error
\* execFile has kept.  Only the 'Command failed' error it builds itself has
\* the members code (of the exit), signal and killed; the kept error has its
\* own code
ExitHandler(p, code, signal) ==
    IF p.ex = "" /\ code = 0 /\ signal = ""
    THEN Fulfilled([stdout |-> p.stdout, stderr |-> p.stderr])
    ELSE IF p.ex = ""
    THEN Rejected([message |-> "Command failed",
                   code |-> code, signal |-> signal, killed |-> p.killed,
                   stdout |-> p.stdout, stderr |-> p.stderr])
    ELSE Rejected([message |-> p.ex, code |-> STR_MAXBUFFER,
                   stdout |-> p.stdout, stderr |-> p.stderr])

executeCommand_NoCatch(settled) ==
    IF settled.state = "fulfilled"
    THEN Fulfilled([success |-> TRUE,
                    stdout |-> settled.value.stdout,
                    stderr |-> settled.value.stderr])
    ELSE settled

\* the rest of executeCommand once the race has settled: the return of the
\* try block or the return of the catch block
executeCommand(settled) ==
    IF settled.state = "fulfilled"
    THEN Fulfilled([success |-> TRUE,
                    stdout |-> settled.value.stdout,
                    stderr |-> settled.value.stderr])
    ELSE LET err == settled.reason
         IN  Fulfilled([success |-> FALSE,
                        stdout |-> IF "stdout" \in DOMAIN err
                                   THEN err.stdout ELSE 0,
                        stderr |-> IF "stderr" \in DOMAIN err
                                   THEN err.stderr ELSE 0,
                        error |-> err])

Race_LastWins(outcome, settled) == <<executeCommand(settled)>>

\* Promise.race: the first settlement of either promise settles the race and
\* the call; the settlements after it change nothing
Race(outcome, settled) ==
    IF outcome = <<>> THEN <<executeCommand(settled)>> ELSE outcome

\* one step of the call in slot s
ExecStep(s, op, p) ==
    /\ procs' = [procs EXCEPT ![s] = p]
    /\ last' = [op |-> op, events |-> <<>>, info |-> [slot |-> s]]
    /\ UNCHANGED <<host, heap, iosEmulators, androidEmulators,
                   statusPollInterval, timers, boots, refreshes, prev>>

\* executeCommand(command, args, options) up to its await.  execFile throws
\* for a timeout that is not a non-negative integer, before the timer promise
\* is made; found tells whether the command can be spawned
ExecuteCommand(s, options, found) ==
    /\ FreeSlot(s)
    /\ LET timeout == EffectiveTimeout(options)
           p == [kind |-> "exec", options |-> options,
                 child |-> "none", ex |-> "", killed |-> FALSE,
                 stdout |-> 0, stderr |-> 0,
                 execTimer |-> FALSE, raceTimer |-> FALSE, delay |-> 0,
                 outcome |-> <<>>]
       IN  IF timeout < 0
           THEN ExecStep(s, "executeCommand",
                         [p EXCEPT !.outcome =
                             Race(<<>>, Rejected([message |-> "ERR_OUT_OF_RANGE"]))])
           ELSE ExecStep(s, "executeCommand",
                         [p EXCEPT !.child = IF found THEN "running" ELSE "failed",
                                   !.execTimer = found,
                                   !.raceTimer = TRUE,
                                   !.delay = timeout])

\* the 'error' event of a child that could not be spawned
SpawnError(s) ==
    /\ procs[s].kind = "exec" /\ procs[s].child = "failed"
    /\ LET p == procs[s]
       IN  ExecStep(s, "SpawnError",
                    [p EXCEPT !.child = "closed",
                              !.outcome =
                                Race(p.outcome,
                                     Rejected([message |-> "ENOENT", code |-> "ENOENT",
                                               stdout |-> 0, stderr |-> 0]))])

\* a 'data' event of the child's stdout or stderr: past maxBuffer the chunk
\* is cut, the error is kept and the child is killed; kill() destroys both
\* streams
ChildWrites(s, stream) ==
    /\ procs[s].kind = "exec" /\ procs[s].child = "running" /\ ~procs[s].killed
    /\ LET p == procs[s]
           had == IF stream = "stdout" THEN p.stdout ELSE p.stderr
           len == had + ChunkBytes
           kept == IF len > maxBuffer THEN had + (maxBuffer - had) ELSE len
           q == IF stream = "stdout" THEN [p EXCEPT !.stdout = kept]
                                     ELSE [p EXCEPT !.stderr = kept]
       IN  ExecStep(s, "ChildWrites",
                    IF len > maxBuffer
                    THEN [q EXCEPT !.ex = MaxBufferExceeded(stream),
                                   !.killed = TRUE]
                    ELSE q)

\* the 'close' event of the child: it exited with a code, or a signal ended
\* it (the code is then null, here -1).  execFile clears its timer and
\* settles its promise
ChildCloses(s, code, signal) ==
    /\ procs[s].kind = "exec" /\ procs[s].child = "running"
    /\ (signal = "") # (code = 0 - 1)
    /\ LET p == procs[s]
       IN  ExecStep(s, "ChildCloses",
                    [p EXCEPT !.child = "closed",
                              !.execTimer = FALSE,
                              !.outcome = Race(p.outcome,
                                               ExitHandler(p, code, signal))])

\* execFile's own timer, set before the timer of the race with the same
\* delay: it kills the child, which closes later or never
ExecTimerFires(s) ==
    /\ procs[s].kind = "exec" /\ procs[s].execTimer
    /\ LET p == procs[s]
       IN  ExecStep(s, "ExecTimerFires",
                    [p EXCEPT !.execTimer = FALSE, !.killed = TRUE])

\* the timer of the race: it is never cleared, and rejects its promise
RaceTimerFires(s) ==
    /\ procs[s].kind = "exec" /\ procs[s].raceTimer /\ ~procs[s].execTimer
    /\ LET p == procs[s]
       IN  ExecStep(s, "RaceTimerFires",
                    [p EXCEPT !.raceTimer = FALSE,
                              !.outcome = Race(p.outcome,
                                               Rejected(CommandTimeout))])

InitExec ==
    /\ host \in {"linux"}
    /\ heap = <<>>
    /\ iosEmulators = <<>>
    /\ androidEmulators = <<>>
    /\ statusPollInterval = FALSE
    /\ procs = [s \in Slots |-> Idle]
    /\ timers = 0
    /\ boots = 0
    /\ refreshes = 0
    /\ last = [op |-> "init", events |-> <<>>, info |-> None]
    /\ prev = None

NextExec ==
    \/ \E s \in Slots, options \in ExecOptions, found \in BOOLEAN :
          ExecuteCommand(s, options, found)
    \/ \E s \in Slots : SpawnError(s)
    \/ \E s \in Slots, stream \in {"stdout", "stderr"} : ChildWrites(s, stream)
    \/ \E s \in Slots, code \in {0, 1, 0 - 1}, signal \in {"", "SIGTERM"} :
          ChildCloses(s, code, signal)
    \/ \E s \in Slots : ExecTimerFires(s)
    \/ \E s \in Slots : RaceTimerFires(s)

SpecExec == InitExec /\ [][NextExec]_vars

\* the event loop runs every timer that is due
FairnessExec ==
    \A s \in Slots : WF_vars(ExecTimerFires(s)) /\ WF_vars(RaceTimerFires(s))

SpecExecFair == InitExec /\ [][NextExec]_vars /\ FairnessExec

\* the calls that were made
Calls == {s \in Slots : procs[s].kind = "exec"}

\* the result the caller of the call in slot s has got, if it has got one
HasResult(s) == procs[s].outcome # <<>>
ResultOf(s) == procs[s].outcome[1].value

\* a failure result with its detail
IsFailure(r) == r.success = FALSE /\ "error" \in DOMAIN r

\* the call in slot s completes in this step
CallCompletes(s) ==
    /\ procs'[s].kind = "exec" /\ procs'[s].outcome # <<>>
    /\ procs[s].kind = "exec" => ~HasResult(s)

\* C21: executeCommand always resolves to a result value and never rejects or
\* throws: every completed call is a fulfilled promise whose value has
\* success, stdout and stderr, and a failure detail when success is false; a
\* child that exits with code zero (and did not overflow the cap) gives
\* success with the stdout and stderr it wrote; a nonzero exit, an ending by
\* signal, a spawn failure, an overflow of the output cap and a timeout give
\* success=false with the error of that failure
C21_AlwaysResolvesToResult ==
    /\ [](\A s \in Calls :
            /\ Len(procs[s].outcome) <= 1
            /\ HasResult(s) =>
                  /\ procs[s].outcome[1].state = "fulfilled"
                  /\ {"success", "stdout", "stderr"} \subseteq DOMAIN ResultOf(s)
                  /\ ResultOf(s).success \in BOOLEAN
                  /\ ~ResultOf(s).success => IsFailure(ResultOf(s)))
    /\ [][\A s \in Slots : CallCompletes(s) =>
            LET p == procs[s]
                r == procs'[s].outcome[1].value
            IN  /\ ChildCloses(s, 0, "") /\ p.ex = ""
                     => r = [success |-> TRUE, stdout |-> p.stdout,
                             stderr |-> p.stderr]
                /\ \A code \in {1, 0 - 1}, signal \in {"", "SIGTERM"} :
                     ChildCloses(s, code, signal) /\ p.ex = ""
                     => /\ IsFailure(r)
                        /\ r.error.code = code /\ r.error.signal = signal
                        /\ r.stdout = p.stdout /\ r.stderr = p.stderr
                /\ SpawnError(s) => IsFailure(r) /\ r.error.code = "ENOENT"
                /\ \A code \in {0, 1, 0 - 1}, signal \in {"", "SIGTERM"} :
                     ChildCloses(s, code, signal) /\ p.ex # ""
                     => /\ IsFailure(r)
                        /\ r.error.code = STR_MAXBUFFER
                        /\ DOMAIN r.error = {"message", "code", "stdout", "stderr"}
                        /\ \/ /\ r.error.message = MaxBufferExceeded("stdout")
                              /\ r.stdout = maxBuffer
                           \/ /\ r.error.message = MaxBufferExceeded("stderr")
                              /\ r.stderr = maxBuffer
                /\ RaceTimerFires(s)
                     => IsFailure(r) /\ r.error.message = "Command timeout"
                /\ (\E options \in ExecOptions, found \in BOOLEAN :
                        ExecuteCommand(s, options, found))
                     => IsFailure(r) /\ r.stdout = 0 /\ r.stderr = 0]_vars

\* C21 witness: one call has succeeded with two chunks of stdout, another
\* has failed because its child overflowed the output cap
C21_Witness ==
    \E s, t \in Calls :
       /\ HasResult(s) /\ ResultOf(s).success /\ ResultOf(s).stdout = 2 * ChunkBytes
       /\ HasResult(t) /\ IsFailure(ResultOf(t))
       /\ ResultOf(t).error.message = MaxBufferExceeded("stdout")
       /\ ResultOf(t).error.code = STR_MAXBUFFER
       /\ ResultOf(t).stdout = maxBuffer

\* the timeout the caller gave, or the default of 30 seconds
GivenTimeout(options) ==
    IF options = <<>> \/ options[1][2] = 0 THEN 30000 ELSE options[1][2]

\* C22: every executeCommand call eventually completes with exactly one
\* result: the timer of the race runs for the given timeout (default 30 s)
\* independently of the child; when it fires and the subprocess has not
\* finished, the call completes at that step with a failure result; a result
\* once delivered is never changed or followed by a second one, whatever the
\* subprocess does later
C22_CompletesExactlyOnce ==
    /\ \A s \in Slots :
          (s \in Calls) ~> (s \in Calls /\ Len(procs[s].outcome) = 1)
    /\ [](\A s \in Calls :
            procs[s].raceTimer => procs[s].delay = GivenTimeout(procs[s].options))
    /\ [][\A s \in Calls :
            /\ HasResult(s) => procs'[s].outcome = procs[s].outcome
            /\ RaceTimerFires(s) /\ procs[s].child # "closed"
                 => /\ Len(procs'[s].outcome) = 1
                    /\ IsFailure(procs'[s].outcome[1].value)
                    /\ ~HasResult(s)
                         => procs'[s].outcome[1].value.error = CommandTimeout]_vars

\* C22 witness: the timer has failed a call whose child was still running,
\* and the child has closed after that
C22_Witness ==
    \E s \in Calls :
       /\ last.op = "ChildCloses" /\ last.info.slot = s
       /\ procs[s].child = "closed"
       /\ HasResult(s) /\ IsFailure(ResultOf(s))
       /\ ResultOf(s).error = CommandTimeout

(***************************************************************************)
(* dispose                                                                 *)
(***************************************************************************)
SetInterval(ms) == <<"setInterval", ms>>    \* the periodic timer is set
ClearInterval == <<"clearInterval", "">>    \* the periodic timer is cleared

stopStatusPolling_Keep(interval) ==
    [interval |-> interval, events |-> <<>>]

\* stopStatusPolling (lines 104-109): the timer is cleared when it is set
stopStatusPolling(interval) ==
    IF interval
    THEN [interval |-> FALSE, events |-> <<ClearInterval>>]
    ELSE [interval |-> interval, events |-> <<>>]

\* dispose() (lines 93-95), called by deactivate() and by the disposal of the
\* subscriptions of the extension: it stops the polling and nothing else, the
\* timers of startEmulator and the calls in flight stay
Dispose ==
    /\ statusPollInterval' = stopStatusPolling(statusPollInterval).interval
    /\ last' = [op |-> "dispose",
                events |-> stopStatusPolling(statusPollInterval).events,
                info |-> None]
    /\ UNCHANGED <<host, heap, iosEmulators, androidEmulators, procs, timers,
                   boots, refreshes, prev>>

\* the constructor (lines 87-91): refresh() has run to its first await and
\* startStatusPolling() has set the timer of POLL_INTERVAL_MS
InitDispose ==
    /\ host \in RenamedHosts
    /\ heap = <<>>
    /\ iosEmulators = <<>>
    /\ androidEmulators = <<>>
    /\ statusPollInterval = TRUE
    /\ procs = [s \in Slots |->
                  IF s = 1
                  THEN [kind |-> "refresh", pc |-> "ios",
                        existingIOS |-> <<>>, existingAndroid |-> <<>>,
                        hasChanges |-> FALSE, iosItems |-> <<>>,
                        androidItems |-> <<>>, list |-> <<>>,
                        seen |-> NothingSeen,
                        alone |-> TRUE]
                  ELSE Idle]
    /\ timers = 0
    /\ boots = 0
    /\ refreshes = 0
    /\ last = [op |-> "constructor", events |-> <<SetInterval("5000")>>,
               info |-> None]
    /\ prev = None

NextDispose ==
    \/ Next
    \/ Dispose

SpecDispose == InitDispose /\ [][NextDispose]_vars

\* the calls in flight, slot by slot, as their kinds
Kinds(ps) == [s \in Slots |-> ps[s].kind]

\* the step is a tick of the periodic timer
IsPollTick == \E s \in Slots : PollTick(s)

\* C32: from the construction until dispose() one periodic timer of 5 seconds
\* is active: the constructor sets it, no later step sets another, and only
\* dispose() stops it; each of its ticks starts one re-check and no refresh;
\* dispose() stops the timer; a second dispose() changes nothing; and no
\* tick starts a re-check after dispose()
C32_OnePollingTimerUntilDispose ==
    /\ (statusPollInterval = TRUE /\ last.events = <<SetInterval("5000")>>)
    /\ [][/\ Count(last'.events, SetInterval("5000")) = 0
          /\ statusPollInterval /\ ~statusPollInterval' => Dispose
          /\ ~statusPollInterval => ~statusPollInterval'
          /\ \A s \in Slots : PollTick(s) =>
                /\ statusPollInterval
                /\ procs[s] = Idle /\ procs'[s].kind = "recheck"
                /\ \A t \in Slots \ {s} : procs'[t].kind = procs[t].kind
                /\ refreshes' = refreshes /\ boots' = boots
          /\ Dispose => ~statusPollInterval'
          /\ Dispose /\ ~statusPollInterval
                => /\ last'.events = <<>>
                   /\ UNCHANGED <<host, heap, iosEmulators, androidEmulators,
                                  statusPollInterval, procs, timers, boots,
                                  refreshes, prev>>
          /\ ~statusPollInterval => ~IsPollTick]_vars

\* C32 witness: dispose() was called a second time, after ticks of the timer
\* had started re-checks
C32_Witness ==
    /\ last.op = "dispose" /\ last.events = <<>>
    /\ ~statusPollInterval
    /\ \E s \in Slots : procs[s].kind = "recheck"

\* a step of the provider that is no new command of the user: a call in
\* flight goes on, or a timer fires
Continues ==
    /\ ~Dispose
    /\ ~\E s \in Slots : Refresh(s)
    /\ ~\E s \in Slots, item \in Rows : StartEmulator(s, item)

\* C33: after dispose() has returned the provider starts no subprocess and
\* emits no change signal: the re-checks scheduled by an earlier boot request
\* do not start, and the refreshes and re-checks in flight do not go on
C33_QuietAfterDispose ==
    [][~statusPollInterval /\ Continues
         => /\ Count(last'.events, Fire) = 0
            /\ \A k \in 1..Len(last'.events) : last'.events[k][1] # "spawn"
            /\ ~\E s \in Slots : TimerFire(s)]_vars

\* the icon the view shows for a status
StatusIcon ==
    [running |-> "$(circle-filled)", starting |-> "$(sync~spin)",
     stopped |-> "$(circle-outline)"]

\* the device records of the store in this state
Stored == Records(heap, iosEmulators, androidEmulators)

\* C34: in every reachable state every device record (not a placeholder) has
\* the icon of its status: filled circle for running, spinner for starting,
\* outline circle for stopped; and every step that changes the status of a
\* record leaves it with the icon of the new status
C34_IconFollowsStatus ==
    /\ [](\A o \in Stored :
            /\ heap[o].status \in DOMAIN StatusIcon
            /\ heap[o].icon = StatusIcon[heap[o].status])
    /\ [][\A o \in Stored \cap DOMAIN heap' :
            heap'[o].status # heap[o].status
            => heap'[o].icon = StatusIcon[heap'[o].status]]_vars

\* C34 witness: a re-check has ended that wrote a status; one Android record
\* is starting, with the spinner, and another is running, with the filled
\* circle
C34_Witness ==
    /\ last.op = "checkStatusChanges" /\ last.events = <<Fire>>
    /\ \E o, q \in AndroidRecords(heap, androidEmulators) :
          /\ heap[o].status = "starting" /\ heap[o].icon = "$(sync~spin)"
          /\ heap[q].status = "running" /\ heap[q].icon = "$(circle-filled)"

\* the placeholder records of the store: the rows that are no device record
Placeholders == Rows \ Stored

\* C35: a placeholder record is never starting or running; a boot request on
\* a placeholder, of iOS or of Android, changes no record, starts no
\* subprocess and emits no change signal
C35_PlaceholderBootIsNoop ==
    /\ [](\A o \in Placeholders : heap[o].status \notin {"starting", "running"})
    /\ [][\A s \in Slots, item \in Placeholders :
            StartEmulator(s, item)
            => /\ \A o \in Rows : o \in DOMAIN heap' /\ heap'[o] = heap[o]
               /\ Count(last'.events, Fire) = 0
               /\ \A k \in 1..Len(last'.events) : last'.events[k][1] # "spawn"]_vars

(***************************************************************************)
(* two boot requests                                                       *)
(***************************************************************************)
NextBoots ==
    \/ Next
    \/ \E s \in Slots, item \in Rows : StartEmulatorAgain(s, item)

\* the provider on the Mac with one simulator and one AVD, with a second
\* click on a row
SpecBoots == InitRenamed /\ [][NextBoots]_vars

\* the call p is a boot request whose boot command is running: `xcrun simctl
\* boot` was started, or the emulator process was spawned
Launching(p) == p.kind = "boot" /\ p.pc \in {"simctl", "spawned"}

\* C36: for one device at most one boot launch is in progress at a time: a
\* second boot request for a record that the first request has marked
\* starting does not start a second boot command or emulator process
C36_OneLaunchPerDevice ==
    \A s, t \in Slots :
       s # t /\ Launching(procs[s]) /\ Launching(procs[t])
       => heap[procs[s].item].id # heap[procs[t].item].id

\* the events of the step that start a subprocess
Spawns(events) == {k \in 1..Len(events) : events[k][1] = "spawn"}

\* C37: a boot request never launches a device that is already running: for
\* an item whose status is running startEmulator starts no subprocess,
\* changes no record, emits no signal and schedules nothing; and when the
\* status resolver answers running to bootAndroidEmulator, no emulator
\* process is spawned and the boot returns without an error
C37_RunningIsNotLaunched ==
    [][\A s \in Slots :
          /\ \A item \in Rows :
                StartEmulator(s, item) /\ heap[item].status = "running"
                => /\ last'.events = <<>>
                   /\ heap' = heap
                   /\ iosEmulators' = iosEmulators
                   /\ androidEmulators' = androidEmulators
                   /\ Kinds(procs') = Kinds(procs)
                   /\ timers' = timers
          /\ BootAndroidProbeStep(s, [kind |-> "status", status |-> "running"])
                => /\ Spawns(last'.events) = {}
                   /\ Count(last'.events, ShowError) = 0
                   /\ last'.info.outcome = "returned"
                   /\ procs'[s] = Idle
                   /\ \A o \in Stored : heap'[o] = heap[o]]_vars

\* C37 witness: a boot request for a running record was ignored
C37_Witness ==
    /\ last.op = "startEmulator" /\ last.info.outcome = "ignored"
    /\ heap[last.info.item].status = "running"
    /\ last.info.item \in Stored

(***************************************************************************)
(* two overlapping re-checks                                               *)
(***************************************************************************)
\* the stdout of `emulator -list-avds` the two re-checks got
OverlapOutputs ==
    { <<"A","\n">>, <<"B","\n">>, <<"A","\n","B","\n">> }

\* the device whose status a re-check with this listing queries last
LastListed(output) ==
    parseAndroidEmulatorList(output)[Len(parseAndroidEmulatorList(output))].name

\* checkStatusChanges waiting for getAndroidEmulatorStatus of the last listed
\* AVD (line 604), as ContinueCheck leaves it
Probing(h, android, output, hasChanges) ==
    LET list == parseAndroidEmulatorList(output)
        existingIndex == FindIndexById(h, android, STR_android_ \o LastListed(output))
    IN  [kind |-> "recheck", pc |-> "status", hasChanges |-> hasChanges,
         list |-> list, k |-> Len(list), existingIndex |-> existingIndex,
         existing |-> android[existingIndex]]

\* The provider on linux after a refresh stored the AVDs A and B, with two
\* re-checks in flight that both wait for the status of the same AVD: the
\* query of the re-check in slot 1 was started first, the query of the
\* re-check in slot 2 after it.  The re-check in slot 2 may have written the
\* status of an AVD listed before.
InitOverlap ==
    /\ host = "linux"
    /\ statusPollInterval = TRUE
    /\ timers = 0
    /\ boots = 0
    /\ refreshes = 0
    /\ last = [op |-> "checkStatusChanges", events |-> <<>>, info |-> [done |-> FALSE]]
    /\ prev = None
    /\ \E statusA, statusB \in AndroidStatuses, first, second \in OverlapOutputs,
          changes \in BOOLEAN :
          LET i == LoadIOS(<<>>, <<>>, FALSE, [kind |-> "unavailable"])
              a == LoadAndroidEmu(i.heap, <<>>, <<>>, FALSE,
                                  [name |-> <<"A">>, status |-> "stopped"], statusA)
              b == LoadAndroidEmu(a.heap, <<>>, a.androidItems, FALSE,
                                  [name |-> <<"B">>, status |-> "stopped"], statusB)
          IN  /\ LastListed(first) = LastListed(second)
              /\ changes => Len(parseAndroidEmulatorList(second)) > 1
              /\ heap = b.heap
              /\ iosEmulators = i.iosItems
              /\ androidEmulators = b.androidItems
              /\ procs = [s \in Slots |->
                            IF s = 1
                            THEN Probing(b.heap, b.androidItems, first, FALSE)
                            ELSE IF s = 2
                            THEN Probing(b.heap, b.androidItems, second, changes)
                            ELSE Idle]

NextOverlap ==
    \E s \in Slots, newStatus \in AndroidStatuses, failed \in BOOLEAN :
       CheckAndroidStatusStep(s, newStatus, failed)

SpecOverlap == InitOverlap /\ [][NextOverlap]_vars

\* the record of the AVD that the re-check in slot s is querying
ProbedRecord(s) ==
    androidEmulators[FindIndexById(heap, androidEmulators, ProbedId(s))]

\* C38: when two status cycles overlap, the status left in the record is the
\* one the query started last has observed: the query started first (slot 1),
\* when it is answered after the cycle of the query started last (slot 2) has
\* completed, does not overwrite the status of the record
C38_NewerProbeWins ==
    [][\A newStatus \in AndroidStatuses, failed \in BOOLEAN :
          CheckAndroidStatusStep(1, newStatus, failed) /\ procs[2] = Idle
          => heap'[ProbedRecord(1)].status = heap[ProbedRecord(1)].status]_vars

\* the call p is a cycle: a refresh or a re-check
IsCycle(p) == p.kind \in {"refresh", "recheck"}

\* the cycle in slot s has taken this step and goes on
GoesOn(s) ==
    /\ IsCycle(procs[s]) /\ procs'[s].kind = procs[s].kind
    /\ \/ procs'[s].pc # procs[s].pc
       \/ procs[s].kind = "recheck" /\ procs'[s].k # procs[s].k
       \/ procs[s].kind = "refresh"
          /\ Len(procs'[s].androidItems) # Len(procs[s].androidItems)

\* the step changes the status or the icon of a row of the store
ChangesRow ==
    \E o \in Rows \cap DOMAIN heap' :
       heap'[o].status # heap[o].status \/ heap'[o].icon # heap[o].icon

\* C39: every change of the status or icon of a stored record is followed by
\* a change signal before the cycle of the operation ends: the step that
\* changes a row fires, or it is a step of a cycle that goes on with
\* hasChanges set; a cycle keeps hasChanges until it ends; and the last step
\* of a cycle with hasChanges fires.  So the store holds no status that was
\* not signalled once every cycle has ended
C39_EveryChangeIsSignalled ==
    [][/\ ChangesRow
            => \/ Count(last'.events, Fire) >= 1
               \/ \E s \in Slots : GoesOn(s) /\ procs'[s].hasChanges
       /\ \A s \in Slots :
            IsCycle(procs[s]) /\ procs[s].hasChanges
            => \/ procs'[s].kind = procs[s].kind /\ procs'[s].hasChanges
               \/ procs'[s] = Idle /\ Count(last'.events, Fire) >= 1]_vars

\* C39 witness: on the Mac a re-check that wrote the status of a simulator
\* has ended with the change signal, after its Android half found no tools
C39_Witness ==
    /\ host = "darwin"
    /\ last.op = "checkStatusChanges" /\ last.info.done
    /\ last.events = <<Fire>>
    /\ AndroidRecords(heap, androidEmulators) = {}
    /\ \E o \in IOSRecords(iosEmulators) : heap[o].status = "running"

(***************************************************************************)
(* the timeouts of the subprocesses of getAndroidEmulatorStatus            *)
(***************************************************************************)

\* the options object each executeCommand call of the status path is given:
\* `adb devices -l` of getAllRunningEmulators gets none (line 204), the
\* methods of getEmulatorAVDName 3000 ms (lines 143-145, 164-166, 179-181),
\* the checks of isAndroidSystemRunning 3000, 3000 and 2000 ms (lines
\* 100-102, 112-114, 124-126), the scan of getAVDNameFromProcesses 3000 ms
\* (line 75)
OptionsOf(call) ==
    IF call = "devices -l" THEN <<>>
    ELSE IF call = "getprop sys.boot_completed" THEN << <<STR_timeout, 2000>> >>
    ELSE << <<STR_timeout, 3000>> >>

\* the subprocesses one call of getAndroidEmulatorStatus has started through
\* executeCommand when it returns: the device list, those of each emulator
\* serial, and the process scan when the queried name is not in the map
StatusPathCalls(info) ==
    {"devices -l"}
    \cup UNION { { info.calls[k][c] : c \in 1..Len(info.calls[k]) } :
                 k \in 1..Len(info.calls) }
    \cup (IF info.emulatorName \in DOMAIN info.runningEmulators
          THEN {} ELSE {"process scan"})

\* C31: every subprocess started on the status path of
\* getAndroidEmulatorStatus (the device list, the AVD-name queries, the
\* liveness checks, the process scan) runs with a timeout of at most 3000 ms,
\* none with the default of 30000 ms.
C31_ShortTimeouts ==
    Returned
      => \A call \in StatusPathCalls(last.info) :
            /\ EffectiveTimeout(OptionsOf(call)) <= 3000
            /\ EffectiveTimeout(OptionsOf(call)) # DEFAULT_TIMEOUT

\* the subprocesses other than the device list keep to 3000 ms
ShortTimeoutsBesidesDeviceList ==
    Returned
      => \A call \in StatusPathCalls(last.info) \ {"devices -l"} :
            EffectiveTimeout(OptionsOf(call)) <= 3000

=============================================================================
